---- MODULE Spec2Model ----
(***************************************************************************)
(* A model of the stock.sys backend: the settings store with its secret    *)
(* handling, the Telegram notification dispatcher (telegramService,        *)
(* notificationController, the scheduler's notification flush), the batch  *)
(* stock refresh (stockController, stockService) and GET /settings.        *)
(*                                                                         *)
(* Every handler is an async function.  One action of the model is one     *)
(* resumption of a handler: the database statement, timer or HTTP call it  *)
(* was awaiting completes and the handler runs on, synchronously, up to    *)
(* the next await.  Between two such steps any other handler may run.      *)
(***************************************************************************)
EXTENDS Naturals, Integers, Sequences, FiniteSets, TLC

VARIABLES
    encKeyOk,        \* process.env.ENCRYPTION_KEY / ENCRYPTION_IV are usable by aes-256-cbc
    now,             \* CURRENT_TIMESTAMP of the database
    settings,        \* table settings: key -> [value, updated_at]
    bot,             \* telegramService: the module-level `let bot` (its token, or null)
    notifications,   \* table notifications: id -> row
    nextId,          \* AUTOINCREMENT counter of notifications
    call,            \* the sendMessage call of each handler: slot -> call state
    create,          \* the createNotification request in flight
    sendReq,         \* the sendNotification request in flight
    flush,           \* the sendDailyNotifications run in flight
    response,        \* the last response createNotification sent
    stocks,          \* table stocks: symbol -> the payload of its row (noData: no row)
    prices,          \* table historical_prices: the set of its rows
    batch,           \* the refreshStockData request in flight
    listing,         \* the response of GET /settings
    probe,           \* decrypt / encrypt applied to an input: the call and what it returned
    test,            \* POST /settings/test-connection in progress
    predict,         \* POST /predictions/generate in progress
    predictions,     \* table predictions, in id order
    job,             \* the scheduled updateStockData run in flight
    sched,           \* node-cron: per job, callbacks fired and runs in progress
    found,           \* the last response of GET /predictions/:symbol
    backup,          \* createBackup: the run of each caller
    init             \* initDatabase: the run at startup, then those of POST /database/initialize

stockVars == <<stocks, prices, batch, listing>>

\* the variables of the handlers modelled last
lateVars == <<found, backup, init>>

moreVars == <<probe, test, predict, predictions, job, sched, found, backup, init>>

vars == <<encKeyOk, now, settings, bot, notifications, nextId, call, create,
          sendReq, flush, response, stocks, prices, batch, listing,
          moreVars>>

-----------------------------------------------------------------------------
(* Bounds of the model.                                                    *)

MaxNotifications == 2   \* rows ever inserted into notifications by the requests
MaxPending == 3         \* rows in notifications when a scheduled flush is studied
MaxInFlight == 2        \* handlers of the notification subsystem running at once
MaxClock == 1           \* ticks of CURRENT_TIMESTAMP
MaxBatch == 2           \* symbols in one refresh request
MaxDates == 2           \* dates a provider's time series may hold
MaxRefreshes == 2       \* refresh requests served

-----------------------------------------------------------------------------
(* JavaScript values.                                                      *)

null == "<null>"        \* JS null / undefined
threw == "<throw>"      \* a call that threw instead of returning

\* !v for the values a setting can hold
Falsy(v) == v = null \/ v = ""

-----------------------------------------------------------------------------
(* settingsController: encrypt / decrypt.  AES-256-CBC with one fixed key  *)
(* and IV is a deterministic injection from plaintexts to hex strings; it  *)
(* is modelled symbolically.  createCipheriv throws on a key that is not   *)
(* 32 bytes (or an IV that is not 16): encrypt lets that escape, decrypt   *)
(* catches everything and returns null.                                    *)

Tokens == {"tokA"}                      \* bot tokens a user may enter
ApiKeys == {"keyA"}                     \* API keys a user may enter
Plaintexts == Tokens \cup ApiKeys

Cipher(text) == "hex(" \o text \o ")"

encrypt(text) == IF encKeyOk THEN Cipher(text) ELSE threw

\* What can reach decrypt besides a ciphertext.  AES-CBC carries no integrity
\* check beyond the PKCS#7 padding of the last block, so a damaged hex string
\* is of one of two kinds:
\*   Garbled(c)   : blocks before the last two altered; the padding is still
\*                  valid, final() succeeds and the bytes are garbage
\*   Truncated(c) : a wrong length or a bad padding; final() throws
Garbled(c) == "~" \o c
Truncated(c) == c \o "-"
garbage(text) == "?" \o text

\* every string encrypt may be applied to
Encryptable == Plaintexts \cup {""}

\* try { createDecipheriv; update(encryptedText, 'hex', 'utf8'); final } catch
\* { return null }
decrypt(encryptedText) ==
    IF ~encKeyOk THEN null
    ELSE IF \E p \in Encryptable : Cipher(p) = encryptedText
    THEN CHOOSE p \in Encryptable : Cipher(p) = encryptedText
    ELSE IF \E p \in Encryptable : Garbled(Cipher(p)) = encryptedText
    THEN garbage(CHOOSE p \in Encryptable : Garbled(Cipher(p)) = encryptedText)
    ELSE null

SensitiveKeys == {"ai_api_key", "telegram_token", "stock_api_key"}

\* encrypt and decrypt called on their own: the last call of each, with its
\* argument and what it returned (threw: it threw)
notCalled == [called |-> FALSE, arg |-> null, out |-> null]
noProbe == [enc |-> notCalled, dec |-> notCalled]

Ciphers == {Cipher(p) : p \in Encryptable}

DecryptInputs ==
    Ciphers \cup {Garbled(c) : c \in Ciphers} \cup {Truncated(c) : c \in Ciphers}
        \cup Plaintexts \cup {"", null}

\* encrypt(text)
CallEncrypt(text) ==
    /\ probe' = [probe EXCEPT !.enc = [called |-> TRUE, arg |-> text, out |-> encrypt(text)]]
    /\ probe' /= probe
    /\ UNCHANGED <<lateVars, encKeyOk, now, settings, bot, notifications, nextId, call, create,
                   sendReq, flush, response, stockVars, test, predict, predictions,
                   job, sched>>

\* decrypt(encryptedText), of any input or of what encrypt has just returned
CallDecrypt(encryptedText) ==
    /\ encryptedText /= threw
    /\ probe' = [probe EXCEPT !.dec = [called |-> TRUE, arg |-> encryptedText,
                                       out |-> decrypt(encryptedText)]]
    /\ probe' /= probe
    /\ UNCHANGED <<lateVars, encKeyOk, now, settings, bot, notifications, nextId, call, create,
                   sendReq, flush, response, stockVars, test, predict, predictions,
                   job, sched>>

-----------------------------------------------------------------------------
(* db.js: getSetting / updateSetting / initDatabase's default settings.    *)

getSetting(key) == IF key \in DOMAIN settings THEN settings[key].value ELSE null

\* INSERT OR REPLACE INTO settings (key, value, updated_at)
updateSetting(key, value) ==
    [k \in DOMAIN settings \cup {key} |->
        IF k = key THEN [value |-> value, updated_at |-> now] ELSE settings[k]]

defaultSettings ==
    [k \in {"stock_api_provider", "data_retention_days", "auto_backup"} |->
        [value |-> CASE k = "stock_api_provider" -> "alphavantage"
                     [] k = "data_retention_days" -> "365"
                     [] OTHER -> "weekly",
         updated_at |-> 0]]

\* an updateSettings that stores every value as it is given
valueToStore_AsGiven(key, value) == value

\* settingsController.updateSettings, for one {key, value} of the request:
\* the value to store, or threw when encrypt throws (the setting is then
\* reported as failed and not stored).
valueToStore(key, value) ==
    IF key \in SensitiveKeys /\ ~Falsy(value) THEN encrypt(value) ELSE value

-----------------------------------------------------------------------------
(* telegramService: getBot and sendMessage.  A call of sendMessage is a    *)
(* little state machine of its own, one per handler that can call it.      *)
(*   token  : awaiting getSetting('telegram_token') inside getBot          *)
(*   chatId : awaiting getSetting('telegram_chat_id')                      *)
(*   net    : awaiting bot.sendMessage, the HTTP call to the bot API       *)
(*   ok/err : sendMessage returned / threw                                 *)
(* tokMiss, chatMiss and net are history fields: the stored token (chat    *)
(* id) was missing when the call was made and at each of its steps so far; *)
(* the call has issued its HTTP request.                                   *)

Slots == {"create", "send", "flush"}

TokenMissing == Falsy(getSetting("telegram_token"))
ChatMissing == Falsy(getSetting("telegram_chat_id"))

noCall == [st |-> "none", b |-> null, tokMiss |-> FALSE, chatMiss |-> FALSE, net |-> FALSE]

\* getBot, its synchronous part: `if (bot) return bot`
getBot == IF bot /= null THEN [st |-> "chatId", b |-> bot] ELSE [st |-> "token", b |-> null]

\* sendMessage(message) up to its first await
sendMessage ==
    [st |-> getBot.st, b |-> getBot.b,
     tokMiss |-> TokenMissing, chatMiss |-> ChatMissing, net |-> FALSE]

\* getBot resumed with the stored token: throws when it is not set or does not
\* decrypt, else builds the client and caches it in `bot`
CallToken(s) ==
    /\ call[s].st = "token"
    /\ LET encryptedToken == getSetting("telegram_token")
           token == decrypt(encryptedToken)
           miss == call[s].tokMiss /\ TokenMissing
       IN IF Falsy(encryptedToken) \/ Falsy(token)
          THEN /\ call' = [call EXCEPT ![s].st = "err", ![s].tokMiss = miss]
               /\ bot' = bot
          ELSE /\ call' = [call EXCEPT ![s].st = "chatId", ![s].b = token,
                                       ![s].tokMiss = miss]
               /\ bot' = token
    /\ UNCHANGED <<moreVars, encKeyOk, now, settings, notifications, nextId, create, sendReq,
                   flush, response, stockVars>>

\* sendMessage resumed with the stored chat id: throws when it is not set, else
\* issues bot.sendMessage(chatId, message)
CallChatId(s) ==
    /\ call[s].st = "chatId"
    /\ LET chatId == getSetting("telegram_chat_id")
       IN call' = [call EXCEPT ![s].st = IF Falsy(chatId) THEN "err" ELSE "net",
                               ![s].net = ~Falsy(chatId),
                               ![s].tokMiss = call[s].tokMiss /\ TokenMissing,
                               ![s].chatMiss = call[s].chatMiss /\ ChatMissing]
    /\ UNCHANGED <<moreVars, encKeyOk, now, settings, bot, notifications, nextId, create,
                   sendReq, flush, response, stockVars>>

\* the bot API answers: the message is delivered, or the request is rejected
CallNet(s) ==
    /\ call[s].st = "net"
    /\ \E delivered \in BOOLEAN :
          call' = [call EXCEPT ![s].st = IF delivered THEN "ok" ELSE "err"]
    /\ UNCHANGED <<moreVars, encKeyOk, now, settings, bot, notifications, nextId, create,
                   sendReq, flush, response, stockVars>>

-----------------------------------------------------------------------------
(* Table notifications.  sent_at is noTime while NULL.                     *)

noTime == 0 - 1

Ids == 1 .. MaxPending

pendingRow == [is_sent |-> FALSE, sent_at |-> noTime, created_at |-> 0]
sentRow == [is_sent |-> TRUE, sent_at |-> 0, created_at |-> 0]

\* the row a handler marks sent: SET is_sent = 1, sent_at = CURRENT_TIMESTAMP
markedSent(row) == [row EXCEPT !.is_sent = TRUE, !.sent_at = now]

\* a loop body whose catch would mark the row sent as well
rowAfterFailedSend_MarksSent(row) == markedSent(row)

\* the catch of the flush's loop body only logs: the row of a failed delivery
rowAfterFailedSend(row) == row

\* UPDATE notifications SET <set> WHERE id = ?  (no such row: nothing changes);
\* the flush's catch issues no UPDATE
UpdateRow(id, set) ==
    IF id \in DOMAIN notifications
    THEN [notifications EXCEPT ![id] =
            CASE set = "is_sent = 1, sent_at = CURRENT_TIMESTAMP" -> markedSent(@)
              [] set = "sent_at = CURRENT_TIMESTAMP" -> [@ EXCEPT !.sent_at = now]
              [] set = "is_sent = 0" -> [@ EXCEPT !.is_sent = FALSE]
              [] set = "" -> rowAfterFailedSend(@)]
    ELSE notifications

RowState(table, id) ==
    IF id \notin DOMAIN table THEN "none"
    ELSE IF table[id].is_sent THEN "sent" ELSE "unsent"

\* A response of createNotification (the status codes of sendNotification and
\* deleteNotification are not kept): the handler, the status code, data.is_sent,
\* whether data.warning is there, and two history fields: the row as the handler's last statement left
\* it ("none", "unsent", "sent"), and whether the stored bot token was missing
\* from the request to the response.
noResponse == [by |-> "none", code |-> 0, is_sent |-> FALSE, warning |-> FALSE,
               row |-> "none", noTok |-> FALSE]

Reply(handler, code) == [noResponse EXCEPT !.by = handler, !.code = code]

noCreate == [pc |-> "idle", id |-> 0]
noSend == [pc |-> "idle", id |-> 0]

\* A run of sendDailyNotifications: the rows it read and its place in them.
\* okIds, failIds and others are history fields: the ids whose delivery by this
\* run succeeded or failed, and those another handler marked sent meanwhile.
noFlush == [pc |-> "idle", list |-> <<>>, i |-> 0, okIds |-> {}, failIds |-> {},
            others |-> {}]

Running(h) == h.pc /= "idle"

InFlight == (IF Running(create) THEN 1 ELSE 0) + (IF Running(sendReq) THEN 1 ELSE 0)
            + (IF Running(flush) THEN 1 ELSE 0)

-----------------------------------------------------------------------------
(* notificationController.createNotification                               *)

\* the is_sent column of the INSERT: `send_now ? 1 : 0`
insertedIsSent(send_now) == send_now

\* POST /notifications {message, type, send_now}: the 400 for an empty message,
\* else the INSERT and, without send_now, the 201; with send_now the handler goes
\* on into sendMessage.
CreateNotification(hasMessage, send_now) ==
    /\ ~Running(create)
    /\ InFlight < MaxInFlight
    /\ IF ~hasMessage
       THEN /\ response' = Reply("create", 400)
            /\ UNCHANGED <<notifications, nextId, call, create>>
       ELSE /\ nextId <= MaxNotifications
            /\ notifications' =
                  [i \in DOMAIN notifications \cup {nextId} |->
                      IF i = nextId
                      THEN [is_sent |-> insertedIsSent(send_now), sent_at |-> noTime,
                            created_at |-> now]
                      ELSE notifications[i]]
            /\ nextId' = nextId + 1
            /\ IF send_now
               THEN /\ create' = [pc |-> "send", id |-> nextId]
                    /\ call' = [call EXCEPT !["create"] = sendMessage]
                    /\ response' = response
               ELSE /\ response' = [Reply("create", 201) EXCEPT !.row = "unsent"]
                    /\ UNCHANGED <<call, create>>
    /\ UNCHANGED <<moreVars, encKeyOk, now, settings, bot, sendReq, flush, stockVars>>

\* sendMessage returned: UPDATE notifications SET sent_at = CURRENT_TIMESTAMP, then
\* the 201 with is_sent: send_now
CreateMarkSent ==
    /\ create.pc = "send"
    /\ call["create"].st = "ok"
    /\ notifications' = UpdateRow(create.id, "sent_at = CURRENT_TIMESTAMP")
    /\ response' = [Reply("create", 201) EXCEPT
                       !.is_sent = TRUE,
                       !.row = RowState(notifications', create.id),
                       !.noTok = call["create"].tokMiss]
    /\ create' = noCreate
    /\ call' = [call EXCEPT !["create"] = noCall]
    /\ UNCHANGED <<moreVars, encKeyOk, now, settings, bot, nextId, sendReq, flush, stockVars>>

\* sendMessage threw: UPDATE notifications SET is_sent = 0, then the 200 with the
\* warning
CreateMarkUnsent ==
    /\ create.pc = "send"
    /\ call["create"].st = "err"
    /\ notifications' = UpdateRow(create.id, "is_sent = 0")
    /\ response' = [Reply("create", 200) EXCEPT
                       !.warning = TRUE,
                       !.row = RowState(notifications', create.id),
                       !.noTok = call["create"].tokMiss]
    /\ create' = noCreate
    /\ call' = [call EXCEPT !["create"] = noCall]
    /\ UNCHANGED <<moreVars, encKeyOk, now, settings, bot, nextId, sendReq, flush, stockVars>>

-----------------------------------------------------------------------------
(* notificationController.sendNotification and deleteNotification          *)

\* POST /notifications/:id/send, up to the SELECT it awaits
SendNotification(id) ==
    /\ ~Running(sendReq)
    /\ InFlight < MaxInFlight
    /\ sendReq' = [pc |-> "select", id |-> id]
    /\ UNCHANGED <<moreVars, encKeyOk, now, settings, bot, notifications, nextId, call, create,
                   flush, response, stockVars>>

\* the SELECT answers: 404, 400 (already sent), or on into sendMessage
SendSelect ==
    /\ sendReq.pc = "select"
    /\ IF sendReq.id \notin DOMAIN notifications
       THEN /\ sendReq' = noSend
            /\ call' = call
       ELSE IF notifications[sendReq.id].is_sent
       THEN /\ sendReq' = noSend
            /\ call' = call
       ELSE /\ sendReq' = [sendReq EXCEPT !.pc = "send"]
            /\ call' = [call EXCEPT !["send"] = sendMessage]
    /\ UNCHANGED <<moreVars, encKeyOk, now, settings, bot, notifications, nextId, create,
                   flush, response, stockVars>>

\* the ids of the flush's list, while it runs
FlushIds == {flush.list[k] : k \in 1 .. Len(flush.list)}

\* sendMessage returned: the UPDATE, then 200
SendMark ==
    /\ sendReq.pc = "send"
    /\ call["send"].st = "ok"
    /\ notifications' = UpdateRow(sendReq.id, "is_sent = 1, sent_at = CURRENT_TIMESTAMP")
    /\ sendReq' = noSend
    /\ call' = [call EXCEPT !["send"] = noCall]
    /\ flush' = [flush EXCEPT !.others = @ \cup (FlushIds \cap {sendReq.id})]
    /\ UNCHANGED <<moreVars, encKeyOk, now, settings, bot, nextId, create, response, stockVars>>

\* sendMessage threw: the outer catch answers 500
SendFail ==
    /\ sendReq.pc = "send"
    /\ call["send"].st = "err"
    /\ sendReq' = noSend
    /\ call' = [call EXCEPT !["send"] = noCall]
    /\ UNCHANGED <<moreVars, encKeyOk, now, settings, bot, notifications, nextId, create,
                   flush, response, stockVars>>

\* DELETE /notifications/:id (its SELECT and DELETE taken as one step: the
\* DELETE removes the row whether or not it changed in between)
DeleteNotification(id) ==
    /\ id \in DOMAIN notifications
    /\ notifications' = [i \in DOMAIN notifications \ {id} |-> notifications[i]]
    /\ UNCHANGED <<moreVars, encKeyOk, now, settings, bot, nextId, call, create, sendReq,
                   flush, response, stockVars>>

-----------------------------------------------------------------------------
(* scheduler.sendDailyNotifications                                        *)

RECURSIVE SortedIds(_)
\* the ids of S, ascending
SortedIds(S) ==
    IF S = {} THEN <<>>
    ELSE LET m == CHOOSE x \in S : \A y \in S : x <= y
         IN <<m>> \o SortedIds(S \ {m})

\* an ORDER BY created_at DESC: the newest first
ByCreatedAt_NewestFirst(S) ==
    [k \in 1 .. Cardinality(S) |-> SortedIds(S)[Cardinality(S) + 1 - k]]

RECURSIVE ByCreatedAt(_)
\* ORDER BY created_at, the rows of one created_at in rowid order
ByCreatedAt(S) ==
    IF S = {} THEN <<>>
    ELSE LET t == CHOOSE x \in {notifications[i].created_at : i \in S} :
                     \A i \in S : x <= notifications[i].created_at
             first == {i \in S : notifications[i].created_at = t}
         IN SortedIds(first) \o ByCreatedAt(S \ first)

\* SELECT * FROM notifications WHERE is_sent = 0 ORDER BY created_at
pendingNotifications ==
    ByCreatedAt({i \in DOMAIN notifications : ~notifications[i].is_sent})

\* the cron trigger fires; the run awaits getSetting('telegram_enabled')
FlushStart ==
    /\ ~Running(flush)
    /\ InFlight < MaxInFlight
    /\ flush' = [noFlush EXCEPT !.pc = "enabled"]
    /\ UNCHANGED <<moreVars, encKeyOk, now, settings, bot, notifications, nextId, call, create,
                   sendReq, response, stockVars>>

\* a run that goes on to its SELECT whatever telegram_enabled holds
FlushEnabled_NotChecked ==
    /\ flush.pc = "enabled"
    /\ flush' = [flush EXCEPT !.pc = "select"]
    /\ UNCHANGED <<moreVars, encKeyOk, now, settings, bot, notifications, nextId, call, create,
                   sendReq, response, stockVars>>

\* telegram_enabled is read: anything but 'true' ends the run
FlushEnabled ==
    /\ flush.pc = "enabled"
    /\ flush' = IF getSetting("telegram_enabled") /= "true"
                THEN noFlush
                ELSE [flush EXCEPT !.pc = "select"]
    /\ UNCHANGED <<moreVars, encKeyOk, now, settings, bot, notifications, nextId, call, create,
                   sendReq, response, stockVars>>

\* the pending rows are read: none ends the run, else the loop sends the first
FlushSelect ==
    /\ flush.pc = "select"
    /\ IF pendingNotifications = <<>>
       THEN /\ flush' = noFlush
            /\ call' = call
       ELSE /\ flush' = [flush EXCEPT !.pc = "send", !.list = pendingNotifications,
                                      !.i = 1]
            /\ call' = [call EXCEPT !["flush"] = sendMessage]
    /\ UNCHANGED <<moreVars, encKeyOk, now, settings, bot, notifications, nextId, create,
                   sendReq, response, stockVars>>

\* sendMessage returned: the UPDATE marks the row sent; the run then awaits the delay
FlushMark ==
    /\ flush.pc = "send"
    /\ call["flush"].st = "ok"
    /\ notifications' = UpdateRow(flush.list[flush.i], "is_sent = 1, sent_at = CURRENT_TIMESTAMP")
    /\ flush' = [flush EXCEPT !.pc = "delay", !.okIds = @ \cup {flush.list[flush.i]}]
    /\ call' = [call EXCEPT !["flush"] = noCall]
    /\ UNCHANGED <<moreVars, encKeyOk, now, settings, bot, nextId, create, sendReq, response,
                   stockVars>>

\* sendMessage threw: the catch logs, and the run awaits the delay
FlushCatch ==
    /\ flush.pc = "send"
    /\ call["flush"].st = "err"
    /\ notifications' = UpdateRow(flush.list[flush.i], "")
    /\ flush' = [flush EXCEPT !.pc = "delay", !.failIds = @ \cup {flush.list[flush.i]}]
    /\ call' = [call EXCEPT !["flush"] = noCall]
    /\ UNCHANGED <<moreVars, encKeyOk, now, settings, bot, nextId, create, sendReq, response,
                   stockVars>>

\* the run has made its last attempt and awaits only the closing delay
FlushFinished == flush.pc = "delay" /\ flush.i = Len(flush.list)

\* the 500 ms delay elapses: the loop sends the next notification, or the run ends
FlushDelay ==
    /\ flush.pc = "delay"
    /\ IF flush.i < Len(flush.list)
       THEN /\ flush' = [flush EXCEPT !.pc = "send", !.i = @ + 1]
            /\ call' = [call EXCEPT !["flush"] = sendMessage]
       ELSE /\ flush' = noFlush
            /\ call' = call
    /\ UNCHANGED <<moreVars, encKeyOk, now, settings, bot, notifications, nextId, create,
                   sendReq, response, stockVars>>

-----------------------------------------------------------------------------
(* settingsController.updateSettings, one {key, value} of the request body *)

TelegramKeys == {"telegram_token", "telegram_chat_id", "telegram_enabled"}

TelegramValues(key) ==
    CASE key = "telegram_token" -> Tokens \cup {""}
      [] key = "telegram_chat_id" -> {"42", ""}
      [] key = "telegram_enabled" -> {"true", "false"}

StockKeys == {"stock_api_provider", "stock_api_key"}

StockValues(key) ==
    CASE key = "stock_api_provider" -> {"alphavantage", "twelvedata", "yahoofinance", "iex", ""}
      [] key = "stock_api_key" -> ApiKeys \cup {""}

UpdateSettings(key, value) ==
    /\ settings' = IF valueToStore(key, value) = threw
                   THEN settings
                   ELSE updateSetting(key, valueToStore(key, value))
    /\ settings' /= settings
    /\ UNCHANGED <<moreVars, encKeyOk, now, bot, notifications, nextId, call, create, sendReq,
                   flush, response, stockVars>>

-----------------------------------------------------------------------------
(* Tables stocks and historical_prices.  What a row holds is known by the  *)
(* fetchStockData call that wrote it: every call gets its own payload from *)
(* the provider, named <<origin, request, position>>.  stocks has the      *)
(* symbol as PRIMARY KEY; historical_prices has UNIQUE(symbol, date) and an *)
(* autoincrement id, which the model leaves out.                           *)

Symbols == {"AAPL", "BAD"}
Dates == 1 .. MaxDates

noData == <<"none", 0, 0>>

noStocks == [s \in Symbols |-> noData]
noPrices == {}

\* a plain INSERT, as if the table had no UNIQUE(symbol, date)
upsert_InsertOnly(rows, row) == rows \cup {row}

\* an INSERT OR IGNORE: the row already stored under the key is kept
upsert_KeepExisting(rows, row) ==
    IF \E r \in rows : r.symbol = row.symbol /\ r.date = row.date THEN rows
    ELSE rows \cup {row}

\* INSERT OR REPLACE INTO historical_prices: the row in conflict on
\* UNIQUE(symbol, date) is deleted, the new row inserted
upsert(rows, row) ==
    {r \in rows : ~(r.symbol = row.symbol /\ r.date = row.date)} \cup {row}

\* the rows of historical_prices for a symbol and a date
PriceRows(symbol, date) == {r \in prices : r.symbol = symbol /\ r.date = date}

(* stockController.refreshStockData and stockService.fetchStockData.       *)
(* A task is one fetchStockData(symbol) call of the request:               *)
(*   provider  : awaiting getSetting('stock_api_provider')                 *)
(*   key       : awaiting getSetting('stock_api_key')                      *)
(*   overview  : awaiting the provider's stock info                        *)
(*   series    : awaiting the provider's time series                       *)
(*   saveStock : awaiting INSERT OR REPLACE INTO stocks                    *)
(*   savePrice : awaiting INSERT OR REPLACE INTO historical_prices         *)
(*   fulfilled / rejected : the promise is settled                         *)
(* got is what the provider has delivered so far (none, info, all), n the  *)
(* number of dates of the series, w the number of rows the call has        *)
(* written, err the error the call threw.                                  *)

newTask(symbol) ==
    [sym |-> symbol, pc |-> "provider", provider |-> null, got |-> "none",
     n |-> 0, w |-> 0, err |-> "none"]

reject(t, kind) == [t EXCEPT !.pc = "rejected", !.err = kind, !.provider = null]

Settled(t) == t.pc \in {"fulfilled", "rejected"}

noAnswer == [code |-> 0, results |-> <<>>, error |-> "none", unsettled |-> 0]

noBatch == [pc |-> "idle", no |-> 0, tasks |-> <<>>, response |-> noAnswer]

\* number of tasks of the sequence that are not settled
RECURSIVE Unsettled(_)
Unsettled(tasks) ==
    IF tasks = <<>> THEN 0
    ELSE (IF Settled(Head(tasks)) THEN 0 ELSE 1) + Unsettled(Tail(tasks))

\* Promise.all cancelling what is still running when one promise rejects
othersAfterRejection_Cancelled(tasks) ==
    [i \in DOMAIN tasks |-> IF Settled(tasks[i]) THEN tasks[i]
                            ELSE [tasks[i] EXCEPT !.pc = "cancelled"]]

\* Promise.all: a rejection settles the combined promise and leaves the other
\* fetchStockData calls running
othersAfterRejection(tasks) == tasks

\* the first rejection in time is the only one at the step it happens
firstRejected(tasks) == CHOOSE i \in DOMAIN tasks : tasks[i].pc = "rejected"

\* what refreshStockData does when task steps have left the tasks as given:
\* still awaiting Promise.all, or res.json({message, results}) when all are
\* fulfilled, or next(err) and the error middleware's 500 at the first rejection
afterAwait(tasks) ==
    IF batch.response.code /= 0 THEN [batch EXCEPT !.tasks = tasks]
    ELSE IF \E i \in DOMAIN tasks : tasks[i].pc = "rejected"
    THEN [batch EXCEPT !.tasks = othersAfterRejection(tasks),
                       !.response = [code |-> 500, results |-> <<>>,
                                     error |-> tasks[firstRejected(tasks)].err,
                                     unsettled |-> Unsettled(tasks)]]
    ELSE IF \A i \in DOMAIN tasks : tasks[i].pc = "fulfilled"
    THEN [batch EXCEPT !.tasks = tasks,
                       !.response = [code |-> 200,
                                     results |-> [i \in DOMAIN tasks |-> tasks[i].sym],
                                     error |-> "none", unsettled |-> 0]]
    ELSE [batch EXCEPT !.tasks = tasks]

step(i, t) == afterAwait([batch.tasks EXCEPT ![i] = t])

\* the payload the provider returns to the i-th call of the request
payload(i) == <<"rest", batch.no, i>>

RefreshBodies ==
    UNION {[1 .. len -> Symbols] : len \in 0 .. MaxBatch}

\* POST /stocks/refresh with body {symbols}
RefreshStockData(symbols) ==
    /\ \A i \in DOMAIN batch.tasks : Settled(batch.tasks[i])
    /\ IF Len(symbols) = 0
       THEN batch' = [batch EXCEPT !.pc = "idle", !.tasks = <<>>,
                                   !.response = [noAnswer EXCEPT !.code = 400]]
       ELSE /\ batch.no < MaxRefreshes
            /\ batch' = [pc |-> "run", no |-> batch.no + 1,
                         tasks |-> [i \in DOMAIN symbols |-> newTask(symbols[i])],
                         response |-> noAnswer]
    /\ batch' /= batch
    /\ UNCHANGED <<moreVars, encKeyOk, now, settings, bot, notifications, nextId, call, create,
                   sendReq, flush, response, stocks, prices, listing>>

\* fetchStockData resumed with the stored provider
afterProvider(t) ==
    LET stored == getSetting("stock_api_provider")
        provider == IF Falsy(stored) THEN "alphavantage" ELSE stored
    IN [t EXCEPT !.pc = "key", !.provider = provider]

TaskProvider(i) ==
    /\ i \in DOMAIN batch.tasks
    /\ batch.tasks[i].pc = "provider"
    /\ batch' = step(i, afterProvider(batch.tasks[i]))
    /\ UNCHANGED <<moreVars, encKeyOk, now, settings, bot, notifications, nextId, call, create,
                   sendReq, flush, response, stocks, prices, listing>>

\* fetchFromYahooFinance: generated data, always a full series
fetchFromYahooFinance(t) == [t EXCEPT !.got = "all", !.n = MaxDates]

\* a fetchStockData that goes to the provider without looking at its settings
afterKey_NoChecks(task) == [task EXCEPT !.provider = null, !.pc = "overview"]

\* fetchStockData resumed with the stored key: throws when it is not set or
\* does not decrypt, else calls the provider's fetch function
afterKey(task) ==
    LET t == [task EXCEPT !.provider = null]
        provider == task.provider
        encryptedApiKey == getSetting("stock_api_key")
        apiKey == decrypt(encryptedApiKey)
    IN IF Falsy(encryptedApiKey) THEN reject(t, "key not set")
       ELSE IF Falsy(apiKey) THEN reject(t, "decrypt")
       ELSE IF provider \in {"alphavantage", "twelvedata"}
            THEN [t EXCEPT !.pc = "overview"]
       ELSE IF provider = "yahoofinance"
            THEN [fetchFromYahooFinance(t) EXCEPT !.pc = "saveStock"]
       ELSE reject(t, "provider")

TaskKey(i) ==
    /\ i \in DOMAIN batch.tasks
    /\ batch.tasks[i].pc = "key"
    /\ batch' = step(i, afterKey(batch.tasks[i]))
    /\ UNCHANGED <<moreVars, encKeyOk, now, settings, bot, notifications, nextId, call, create,
                   sendReq, flush, response, stocks, prices, listing>>

\* fetchFromAlphaVantage / fetchFromTwelveData resumed with the stock info,
\* valid or not
afterOverview(t, valid) ==
    IF valid THEN [t EXCEPT !.pc = "series", !.got = "info"] ELSE reject(t, "overview")

TaskOverview(i) ==
    /\ i \in DOMAIN batch.tasks
    /\ batch.tasks[i].pc = "overview"
    /\ \E valid \in BOOLEAN : batch' = step(i, afterOverview(batch.tasks[i], valid))
    /\ UNCHANGED <<moreVars, encKeyOk, now, settings, bot, notifications, nextId, call, create,
                   sendReq, flush, response, stocks, prices, listing>>

invalid == 0 - 1

\* a task that would save the stock info it holds when the series is invalid
afterSeries_SavesInfo(t, n) ==
    [t EXCEPT !.pc = "saveStock", !.n = IF n = invalid THEN 0 ELSE n,
              !.got = IF n = invalid THEN "info" ELSE "all"]

\* the task resumed with the time series response, of n dates or invalid:
\* throws, or returns the stock data to fetchStockData, which calls
\* saveStockData
afterSeries(t, n) ==
    IF n = invalid THEN reject(t, "series")
    ELSE [t EXCEPT !.pc = "saveStock", !.n = n, !.got = "all"]

TaskSeries(i) ==
    /\ i \in DOMAIN batch.tasks
    /\ batch.tasks[i].pc = "series"
    /\ \E n \in {invalid} \cup (0 .. MaxDates) :
          batch' = step(i, afterSeries(batch.tasks[i], n))
    /\ UNCHANGED <<moreVars, encKeyOk, now, settings, bot, notifications, nextId, call, create,
                   sendReq, flush, response, stocks, prices, listing>>

\* saveStockData: a statement that has succeeded, then the next one or the end
afterWrite(t) ==
    [t EXCEPT !.w = @ + 1, !.pc = IF t.w = t.n THEN "fulfilled" ELSE "savePrice"]

\* INSERT OR REPLACE INTO stocks completes, or fails and saveStockData rethrows
TaskSaveStock(i) ==
    /\ i \in DOMAIN batch.tasks
    /\ batch.tasks[i].pc = "saveStock"
    /\ \E fault \in BOOLEAN :
          IF fault
          THEN /\ batch' = step(i, reject(batch.tasks[i], "storage"))
               /\ stocks' = stocks
          ELSE /\ batch' = step(i, afterWrite(batch.tasks[i]))
               /\ stocks' = [stocks EXCEPT ![batch.tasks[i].sym] = payload(i)]
    /\ UNCHANGED <<moreVars, encKeyOk, now, settings, bot, notifications, nextId, call, create,
                   sendReq, flush, response, prices, listing>>

\* INSERT OR REPLACE INTO historical_prices of the next date completes, or fails
TaskSavePrice(i) ==
    /\ i \in DOMAIN batch.tasks
    /\ batch.tasks[i].pc = "savePrice"
    /\ \E fault \in BOOLEAN :
          IF fault
          THEN /\ batch' = step(i, reject(batch.tasks[i], "storage"))
               /\ prices' = prices
          ELSE /\ batch' = step(i, afterWrite(batch.tasks[i]))
               /\ prices' = upsert(prices, [symbol |-> batch.tasks[i].sym,
                                             date |-> batch.tasks[i].w, data |-> payload(i)])
    /\ UNCHANGED <<moreVars, encKeyOk, now, settings, bot, notifications, nextId, call, create,
                   sendReq, flush, response, stocks, listing>>

-----------------------------------------------------------------------------
(* settingsController.getAllSettings, GET /settings.                       *)

\* a listing that returns every setting as stored
redact_AsIs(key, row) == [key |-> key, value |-> row.value, updated_at |-> row.updated_at]

\* the callback of settings.map: one row of the SELECT, as sent to the client
redact(key, row) ==
    IF key \in SensitiveKeys
    THEN [key |-> key, isSet |-> ~Falsy(row.value), updated_at |-> row.updated_at]
    ELSE [key |-> key, value |-> row.value, updated_at |-> row.updated_at]

\* processedSettings, entry by key (the SELECT has no ORDER BY)
processedSettings(store) == [k \in DOMAIN store |-> redact(k, store[k])]

noListing == [status |-> 0]

\* app.locals of the server entry point: what express() puts there; the entry
\* point assigns nothing to it
appLocals == [settings |-> "express"]

\* GET /settings: req.app.locals.db.allAsync(...) inside the try; a TypeError
\* goes to next(err) and the error middleware answers 500
GetAllSettings ==
    /\ listing' = IF "db" \in DOMAIN appLocals
                  THEN [status |-> 200, data |-> processedSettings(settings)]
                  ELSE [status |-> 500]
    /\ listing' /= listing
    /\ UNCHANGED <<moreVars, encKeyOk, now, settings, bot, notifications, nextId, call, create,
                   sendReq, flush, response, stocks, prices, batch>>

\* the map of getAllSettings applied to the rows of the settings table
MapSettings ==
    /\ listing = noListing
    /\ listing' = [status |-> 200, data |-> processedSettings(settings)]
    /\ UNCHANGED <<moreVars, encKeyOk, now, settings, bot, notifications, nextId, call, create,
                   sendReq, flush, response, stocks, prices, batch>>

\* CURRENT_TIMESTAMP moves on
Tick ==
    /\ now < MaxClock
    /\ now' = now + 1
    /\ UNCHANGED <<moreVars, encKeyOk, settings, bot, notifications, nextId, call, create,
                   sendReq, flush, response, stocks, prices, batch, listing>>

-----------------------------------------------------------------------------
(* settingsController.testConnection (POST /settings/test-connection).     *)
(*   provider : awaiting getSetting('stock_api_provider')                  *)
(*   key      : awaiting getSetting('stock_api_key')                       *)
(*   token    : awaiting getSetting('telegram_token')                      *)
(*   aiKey    : awaiting getSetting('ai_api_key')                          *)
(*   net      : awaiting axios.get / bot.getMe                             *)
(*   done     : the response is sent                                       *)
(* net records that the handler has issued an outbound request and sent    *)
(* the credential it put into it.                                          *)

Services == {null, "stock_api", "telegram", "ai_api", "other"}

noTest == [pc |-> "idle", service |-> null, provider |-> null, sent |-> null,
           net |-> FALSE, code |-> 0, error |-> "none"]

answer(t, code, error) == [t EXCEPT !.pc = "done", !.code = code, !.error = error]

\* testConnection up to its first await
TestConnection(service) ==
    /\ test.pc \in {"idle", "done"}
    /\ LET t == [noTest EXCEPT !.service = service]
       IN test' = CASE service = null -> answer(t, 400, "Service type is required")
                    [] service = "stock_api" -> [t EXCEPT !.pc = "provider"]
                    [] service = "telegram" -> [t EXCEPT !.pc = "token"]
                    [] service = "ai_api" -> [t EXCEPT !.pc = "aiKey"]
                    [] OTHER -> answer(t, 400, "Unsupported service type")
    /\ test' /= test
    /\ UNCHANGED <<lateVars, encKeyOk, now, settings, bot, notifications, nextId, call, create,
                   sendReq, flush, response, stockVars, probe, predict, predictions,
                   job, sched>>

TestProvider ==
    /\ test.pc = "provider"
    /\ test' = [test EXCEPT !.pc = "key", !.provider = getSetting("stock_api_provider")]
    /\ UNCHANGED <<lateVars, encKeyOk, now, settings, bot, notifications, nextId, call, create,
                   sendReq, flush, response, stockVars, probe, predict, predictions,
                   job, sched>>

\* resumed with the stored API key: 400 when it is not set, else the decrypted
\* key goes into the provider's URL as it is
TestKey ==
    /\ test.pc = "key"
    /\ LET encryptedApiKey == getSetting("stock_api_key")
           apiKey == decrypt(encryptedApiKey)
       IN test' = IF Falsy(encryptedApiKey)
                  THEN answer(test, 400, "Stock API key is not set")
                  ELSE IF test.provider \in {"alphavantage", "twelvedata"}
                  THEN [test EXCEPT !.pc = "net", !.net = TRUE, !.sent = apiKey]
                  ELSE answer(test, 200, "Unsupported API provider")
    /\ UNCHANGED <<lateVars, encKeyOk, now, settings, bot, notifications, nextId, call, create,
                   sendReq, flush, response, stockVars, probe, predict, predictions,
                   job, sched>>

\* resumed with the stored token: 400 when it is not set, else a client is
\* built on the decrypted token and getMe is requested
TestToken ==
    /\ test.pc = "token"
    /\ LET encryptedToken == getSetting("telegram_token")
           token == decrypt(encryptedToken)
       IN test' = IF Falsy(encryptedToken)
                  THEN answer(test, 400, "Telegram token is not set")
                  ELSE [test EXCEPT !.pc = "net", !.net = TRUE, !.sent = token]
    /\ UNCHANGED <<lateVars, encKeyOk, now, settings, bot, notifications, nextId, call, create,
                   sendReq, flush, response, stockVars, probe, predict, predictions,
                   job, sched>>

TestAiKey ==
    /\ test.pc = "aiKey"
    /\ test' = IF Falsy(getSetting("ai_api_key"))
               THEN answer(test, 400, "AI API key is not set")
               ELSE answer(test, 200, "none")
    /\ UNCHANGED <<lateVars, encKeyOk, now, settings, bot, notifications, nextId, call, create,
                   sendReq, flush, response, stockVars, probe, predict, predictions,
                   job, sched>>

\* the outbound request completes: accepted, refused in the body, or failed.
\* A failed axios.get reaches next(err); a failed getMe is caught.
TestNet ==
    /\ test.pc = "net"
    /\ \E outcome \in {"accepted", "refused", "failed"} :
          test' = CASE outcome = "accepted" -> answer(test, 200, "none")
                    [] outcome = "refused" -> answer(test, 200, "refused")
                    [] OTHER -> IF test.service = "telegram"
                                THEN answer(test, 200, "Invalid Telegram token")
                                ELSE answer(test, 500, "Server error")
    /\ UNCHANGED <<lateVars, encKeyOk, now, settings, bot, notifications, nextId, call, create,
                   sendReq, flush, response, stockVars, probe, predict, predictions,
                   job, sched>>

-----------------------------------------------------------------------------
(* predictionController.generatePrediction (POST /predictions/generate).   *)
(*   key    : awaiting getSetting('ai_api_key')                            *)
(*   latest : awaiting SELECT ... ORDER BY date DESC LIMIT 1               *)
(*   insert : awaiting INSERT INTO predictions                             *)
(*   done   : the response is sent                                         *)
(* latest is the price row the SELECT returned.  A row of predictions      *)
(* holds its columns symbol, date, prediction_type and timeframe, and the  *)
(* price row its prediction, confidence and target_price were computed     *)
(* from.  A date column holds the text of a day; days are counted from the *)
(* start of the model's clock.                                             *)

MaxPredictions == 2     \* rows ever inserted into predictions

\* a SELECT that returned no row
noRow == [symbol |-> null, date |-> 0, data |-> noData]

noPredict == [pc |-> "idle", symbol |-> null, timeframe |-> null, code |-> 0,
              error |-> "none", latest |-> noRow]

\* the labels generatePrediction accepts, and the days ahead of each
Timeframes == {"short", "medium", "long"}

daysAhead(timeframe) ==
    CASE timeframe = "short" -> 7
      [] timeframe = "medium" -> 30
      [] timeframe = "long" -> 90

\* date.toISOString().split('T')[0]: the text of a day
isoDate(day) == "day " \o ToString(day)

\* the day an ISO date text names
dayOf(text) == CHOOSE day \in 0..(MaxClock + 1 + 90) : isoDate(day) = text

\* the column list of the INSERT against its value list: prediction_type
\* receives the label, timeframe receives the target date
insertedPrediction(symbol, timeframe, today, latest) ==
    [symbol |-> symbol, date |-> isoDate(today), prediction_type |-> timeframe,
     timeframe |-> isoDate(today + daysAhead(timeframe)), from |-> latest]

\* the row SELECT * FROM historical_prices WHERE symbol = ? ORDER BY date DESC
\* LIMIT 1 returns
latestPrice(symbol) ==
    LET rows == {r \in prices : r.symbol = symbol}
    IN IF rows = {} THEN noRow
       ELSE CHOOSE r \in rows : \A q \in rows : q.date <= r.date

\* generatePrediction up to its first await
GeneratePrediction(symbol, timeframe) ==
    /\ predict.pc \in {"idle", "done"}
    /\ Len(predictions) < MaxPredictions
    /\ LET p == [noPredict EXCEPT !.symbol = symbol]
       IN predict' = IF symbol = null
                     THEN answer(p, 400, "Stock symbol is required")
                     ELSE IF Falsy(timeframe) \/ timeframe \notin Timeframes
                     THEN answer(p, 400, "Valid timeframe is required")
                     ELSE [p EXCEPT !.pc = "key", !.timeframe = timeframe]
    /\ predict' /= predict
    /\ UNCHANGED <<lateVars, encKeyOk, now, settings, bot, notifications, nextId, call, create,
                   sendReq, flush, response, stockVars, probe, test, predictions,
                   job, sched>>

PredictKey ==
    /\ predict.pc = "key"
    /\ LET encryptedApiKey == getSetting("ai_api_key")
           apiKey == decrypt(encryptedApiKey)
       IN predict' = IF Falsy(encryptedApiKey)
                     THEN answer(predict, 400, "AI API key is not set")
                     ELSE IF Falsy(apiKey)
                     THEN answer(predict, 500, "Failed to decrypt AI API key")
                     ELSE [predict EXCEPT !.pc = "latest"]
    /\ UNCHANGED <<lateVars, encKeyOk, now, settings, bot, notifications, nextId, call, create,
                   sendReq, flush, response, stockVars, probe, test, predictions,
                   job, sched>>

PredictLatest ==
    /\ predict.pc = "latest"
    /\ LET latest == latestPrice(predict.symbol)
       IN predict' = IF latest = noRow
                     THEN answer(predict, 404, "No historical data found for this stock")
                     ELSE [predict EXCEPT !.pc = "insert", !.latest = latest]
    /\ UNCHANGED <<lateVars, encKeyOk, now, settings, bot, notifications, nextId, call, create,
                   sendReq, flush, response, stockVars, probe, test, predictions,
                   job, sched>>

\* the INSERT completes and the prediction is returned, or it fails: next(err)
PredictInsert ==
    /\ predict.pc = "insert"
    /\ \E fault \in BOOLEAN :
          IF fault
          THEN /\ predict' = answer(predict, 500, "Server error")
               /\ predictions' = predictions
          ELSE /\ predict' = answer(predict, 200, "none")
               /\ predictions' = Append(predictions,
                                        insertedPrediction(predict.symbol, predict.timeframe,
                                                           now, predict.latest))
    /\ UNCHANGED <<lateVars, encKeyOk, now, settings, bot, notifications, nextId, call, create,
                   sendReq, flush, response, stockVars, probe, test, job, sched>>

-----------------------------------------------------------------------------
(* predictionController.getPredictions (GET /predictions/:symbol?timeframe). *)
(* The response lists the ids of the rows returned, in the order returned. *)

noFound == [symbol |-> null, timeframe |-> null, code |-> 0, rows |-> <<>>]

\* WHERE symbol = ? [AND timeframe = ?]: the clause on timeframe is added when
\* the query parameter is truthy, and compares the column timeframe
selected(symbol, timeframe) ==
    {k \in DOMAIN predictions :
        /\ predictions[k].symbol = symbol
        /\ Falsy(timeframe) \/ predictions[k].timeframe = timeframe}

\* ORDER BY date DESC, timeframe ASC (rows equal on both in id order)
ordered(ids) ==
    LET first(a, b) ==
           LET ra == predictions[a]
               rb == predictions[b]
           IN \/ dayOf(ra.date) > dayOf(rb.date)
              \/ /\ ra.date = rb.date
                 /\ dayOf(ra.timeframe) < dayOf(rb.timeframe)
              \/ /\ ra.date = rb.date /\ ra.timeframe = rb.timeframe
                 /\ a < b
    IN CHOOSE s \in [1..Cardinality(ids) -> ids] :
          \A i, j \in DOMAIN s : i < j => first(s[i], s[j])

\* the whole handler: the query is run and its rows are the response, or the
\* query fails: next(err)
GetPredictions(symbol, timeframe) ==
    /\ \E fault \in BOOLEAN :
          found' = IF fault
                   THEN [noFound EXCEPT !.symbol = symbol, !.timeframe = timeframe,
                                        !.code = 500]
                   ELSE [symbol |-> symbol, timeframe |-> timeframe, code |-> 200,
                         rows |-> ordered(selected(symbol, timeframe))]
    /\ found' /= found
    /\ UNCHANGED <<encKeyOk, now, settings, bot, notifications, nextId, call, create,
                   sendReq, flush, response, stockVars, probe, test, predict, predictions,
                   job, sched, backup, init>>

-----------------------------------------------------------------------------
(* db.createBackup, called by the weekly job scheduler.backupDatabase and  *)
(* by POST /database/backup.                                               *)
(*   copy   : source.pipe(destination) is running                          *)
(*   record : 'finish' has fired, awaiting updateSetting('last_backup_time') *)
(*   stalled: no event that settles the promise can fire any more          *)
(*   done   : the promise is settled and the caller has returned           *)
(* end is the state of the promise createBackup returned; a stalled run    *)
(* leaves it pending (when Node ends the process on the unhandled error it *)
(* is not settled either).  at is the `new Date()` of the finish handler.  *)

Callers == {"backupDatabase", "POST /database/backup"}

noBackup == [pc |-> "idle", path |-> null, end |-> "none", at |-> noTime]

noBackups == [c \in Callers |-> noBackup]

\* new Date().toISOString()
isoTime(t) == isoDate(t) \o "T00:00:00.000Z"

\* backups/stockdata-backup-${timestamp}.db, timestamp the ISO time with
\* ':' and '.' replaced by '-'
backupPath(t) == "backups/stockdata-backup-" \o isoDate(t) \o "T00-00-00-000Z.db"

\* createBackup up to the promise it returns: mkdirSync throws and the catch
\* rethrows, or the two streams are created and piped
CreateBackup(c) ==
    /\ backup[c].pc \in {"idle", "done"}
    /\ \E fault \in BOOLEAN :
          backup' = [backup EXCEPT ![c] =
                        IF fault
                        THEN [noBackup EXCEPT !.pc = "done", !.end = "rejected"]
                        ELSE [noBackup EXCEPT !.pc = "copy", !.path = backupPath(now),
                                              !.end = "pending"]]
    /\ backup' /= backup
    /\ UNCHANGED <<encKeyOk, now, settings, bot, notifications, nextId, call, create,
                   sendReq, flush, response, stockVars, probe, test, predict, predictions,
                   job, sched, found, init>>

\* a createBackup whose copy leaves last_backup_time written whatever its event
BackupCopy_AlwaysRecords(c) ==
    /\ backup[c].pc = "copy"
    /\ \E event \in {"finish", "write error", "read error"} :
          backup' = [backup EXCEPT ![c] = [@ EXCEPT !.pc = "done", !.end = "rejected"]]
    /\ settings' = updateSetting("last_backup_time", isoTime(now))
    /\ UNCHANGED <<encKeyOk, now, bot, notifications, nextId, call, create,
                   sendReq, flush, response, stockVars, probe, test, predict, predictions,
                   job, sched, found, init>>

\* the copy ends: destination emits 'finish' (the handler takes the time and
\* awaits updateSetting), destination emits 'error' (reject), or source emits
\* 'error', which no handler listens to: destination is never ended, neither
\* 'finish' nor its 'error' fires
BackupCopy(c) ==
    /\ backup[c].pc = "copy"
    /\ \E event \in {"finish", "write error", "read error"} :
          backup' = [backup EXCEPT ![c] =
                        CASE event = "finish" -> [@ EXCEPT !.pc = "record", !.at = now]
                          [] event = "write error" ->
                                [@ EXCEPT !.pc = "done", !.end = "rejected"]
                          [] event = "read error" -> [@ EXCEPT !.pc = "stalled"]]
    /\ UNCHANGED <<encKeyOk, now, settings, bot, notifications, nextId, call, create,
                   sendReq, flush, response, stockVars, probe, test, predict, predictions,
                   job, sched, found, init>>

\* the finish handler resumed: updateSetting has written the setting and
\* resolve(backupPath) is called, or updateSetting threw: the async handler
\* rejects, resolve is not reached and nothing calls reject
BackupRecord(c) ==
    /\ backup[c].pc = "record"
    /\ \E fault \in BOOLEAN :
          IF fault
          THEN /\ backup' = [backup EXCEPT ![c].pc = "stalled"]
               /\ settings' = settings
          ELSE /\ backup' = [backup EXCEPT ![c].pc = "done", ![c].end = "resolved"]
               /\ settings' = updateSetting("last_backup_time", isoTime(backup[c].at))
    /\ UNCHANGED <<encKeyOk, now, bot, notifications, nextId, call, create,
                   sendReq, flush, response, stockVars, probe, test, predict, predictions,
                   job, sched, found, init>>

-----------------------------------------------------------------------------
(* db.initDatabase, run when the process starts (server.js) and by         *)
(* databaseController.initializeDatabase (POST /database/initialize), whose *)
(* two branches on `reset` both call it.                                   *)
(*   schema   : awaiting the five CREATE TABLE IF NOT EXISTS               *)
(*   defaults : awaiting the INSERT OR IGNORE of default setting i         *)
(*   done     : resolved, code 200; or threw, code 500 (at startup the     *)
(*              process exits)                                             *)
(* A table that does not exist and an empty table are the same state of    *)
(* the model, so CREATE TABLE IF NOT EXISTS changes no variable.           *)

noInit == [pc |-> "idle", by |-> null, reset |-> FALSE, i |-> 0, code |-> 0]

\* the run server.js starts before it listens
startupInit == [noInit EXCEPT !.pc = "schema", !.by = "startup"]

\* the defaultSettings array, in its order
DefaultKeys == <<"stock_api_provider", "data_retention_days", "auto_backup">>

\* an INSERT OR REPLACE in the place of the INSERT OR IGNORE
insertOrIgnore_Replace(key, value) == updateSetting(key, value)

\* INSERT OR IGNORE INTO settings (key, value): a key that has a row keeps it
insertOrIgnore(key, value) ==
    IF key \in DOMAIN settings THEN settings ELSE updateSetting(key, value)

\* initDatabase threw at startup: process.exit(1)
Exited == init.by = "startup" /\ init.code = 500

\* initializeDatabase up to its first await, with reset or without
InitializeDatabase(reset) ==
    /\ init.pc = "done" /\ ~Exited
    /\ init' = [noInit EXCEPT !.pc = "schema", !.by = "request", !.reset = reset]
    /\ UNCHANGED <<encKeyOk, now, settings, bot, notifications, nextId, call, create,
                   sendReq, flush, response, stockVars, probe, test, predict, predictions,
                   job, sched, found, backup>>

\* the CREATE TABLE statements have run, or one of them threw
InitSchema ==
    /\ init.pc = "schema"
    /\ \E fault \in BOOLEAN :
          init' = IF fault THEN [init EXCEPT !.pc = "done", !.code = 500]
                  ELSE [init EXCEPT !.pc = "defaults", !.i = 1]
    /\ UNCHANGED <<encKeyOk, now, settings, bot, notifications, nextId, call, create,
                   sendReq, flush, response, stockVars, probe, test, predict, predictions,
                   job, sched, found, backup>>

\* the INSERT OR IGNORE of default setting i has run, or threw; after the last
\* one initDatabase returns true
InitDefault ==
    /\ init.pc = "defaults"
    /\ \E fault \in BOOLEAN :
          IF fault
          THEN /\ init' = [init EXCEPT !.pc = "done", !.code = 500]
               /\ settings' = settings
          ELSE /\ init' = IF init.i < Len(DefaultKeys) THEN [init EXCEPT !.i = @ + 1]
                          ELSE [init EXCEPT !.pc = "done", !.code = 200]
               /\ settings' = insertOrIgnore(DefaultKeys[init.i],
                                             defaultSettings[DefaultKeys[init.i]].value)
    /\ UNCHANGED <<encKeyOk, now, bot, notifications, nextId, call, create,
                   sendReq, flush, response, stockVars, probe, test, predict, predictions,
                   job, sched, found, backup>>

-----------------------------------------------------------------------------
(* scheduler.updateStockData, the scheduled refresh.                       *)
(*   select : awaiting SELECT symbol FROM stocks                           *)
(*   fetch  : awaiting fetchStockData(list[i]); task is that call          *)
(*   delay  : awaiting the 1000 ms timer                                   *)
(*   done   : the run has returned; end tells how                          *)
(* calls, failed and delays are history fields: the symbols fetchStockData *)
(* was called for, the positions whose call threw, the timers elapsed.     *)

MaxRuns == 1            \* runs of the scheduled refresh

noTask == [newTask(null) EXCEPT !.pc = "none"]

noJob == [pc |-> "idle", no |-> 0, list |-> <<>>, i |-> 0, task |-> noTask,
          calls |-> <<>>, failed |-> {}, delays |-> 0, end |-> "none"]

\* the symbols that have a row in stocks
tracked == {symbol \in Symbols : stocks[symbol] /= noData}

\* the orders a SELECT without ORDER BY may return the set in
Orders(S) == {list \in [1 .. Cardinality(S) -> S] : {list[k] : k \in DOMAIN list} = S}

\* the payload the provider returns to the i-th call of the run
jobPayload == <<"cron", job.no, job.i>>

\* the run returns: `return`, the end of the function, or the outer catch
returned(j) == [j EXCEPT !.pc = "done", !.task = noTask, !.end = "resolved"]

\* a loop without the inner try/catch: a failed call ends the run
afterFetch_Rethrows(t) ==
    IF t.pc = "rejected"
    THEN [job EXCEPT !.pc = "done", !.task = t, !.failed = @ \cup {job.i},
                     !.end = "rejected"]
    ELSE [job EXCEPT !.task = t, !.pc = IF Settled(t) THEN "delay" ELSE @]

\* a loop that skips the timer after a failed call
afterFetch_NoDelayOnFailure(t) ==
    IF t.pc = "rejected" /\ job.i < Len(job.list)
    THEN [job EXCEPT !.i = @ + 1, !.failed = @ \cup {job.i},
                     !.task = newTask(job.list[job.i + 1]),
                     !.calls = Append(@, job.list[job.i + 1])]
    ELSE [job EXCEPT !.task = t,
                     !.pc = IF Settled(t) THEN "delay" ELSE @,
                     !.failed = IF t.pc = "rejected" THEN @ \cup {job.i} ELSE @]

\* the loop body after a step of its fetchStockData call: when the call has
\* returned or thrown (caught and logged), the timer is started
afterFetch(t) ==
    [job EXCEPT !.task = t,
                !.pc = IF Settled(t) THEN "delay" ELSE @,
                !.failed = IF t.pc = "rejected" THEN @ \cup {job.i} ELSE @]

\* the cron callback calls updateStockData, which issues its SELECT
UpdateStockData ==
    /\ job.pc \in {"idle", "done"}
    /\ job.no < MaxRuns
    /\ job' = [noJob EXCEPT !.pc = "select", !.no = job.no + 1]
    /\ UNCHANGED <<lateVars, encKeyOk, now, settings, bot, notifications, nextId, call, create,
                   sendReq, flush, response, stockVars, probe, test, predict, predictions,
                   sched>>

\* the SELECT completes, or fails into the outer catch; an empty list returns
JobSelect ==
    /\ job.pc = "select"
    /\ \E fault \in BOOLEAN, list \in Orders(tracked) :
          job' = IF fault \/ list = <<>> THEN returned(job)
                 ELSE [job EXCEPT !.pc = "fetch", !.list = list, !.i = 1,
                                  !.task = newTask(list[1]), !.calls = <<list[1]>>]
    /\ UNCHANGED <<lateVars, encKeyOk, now, settings, bot, notifications, nextId, call, create,
                   sendReq, flush, response, stockVars, probe, test, predict, predictions,
                   sched>>

JobProvider ==
    /\ job.pc = "fetch" /\ job.task.pc = "provider"
    /\ job' = afterFetch(afterProvider(job.task))
    /\ UNCHANGED <<lateVars, encKeyOk, now, settings, bot, notifications, nextId, call, create,
                   sendReq, flush, response, stockVars, probe, test, predict, predictions,
                   sched>>

JobKey ==
    /\ job.pc = "fetch" /\ job.task.pc = "key"
    /\ job' = afterFetch(afterKey(job.task))
    /\ UNCHANGED <<lateVars, encKeyOk, now, settings, bot, notifications, nextId, call, create,
                   sendReq, flush, response, stockVars, probe, test, predict, predictions,
                   sched>>

JobOverview ==
    /\ job.pc = "fetch" /\ job.task.pc = "overview"
    /\ \E valid \in BOOLEAN : job' = afterFetch(afterOverview(job.task, valid))
    /\ UNCHANGED <<lateVars, encKeyOk, now, settings, bot, notifications, nextId, call, create,
                   sendReq, flush, response, stockVars, probe, test, predict, predictions,
                   sched>>

JobSeries ==
    /\ job.pc = "fetch" /\ job.task.pc = "series"
    /\ \E n \in {invalid} \cup (0 .. MaxDates) : job' = afterFetch(afterSeries(job.task, n))
    /\ UNCHANGED <<lateVars, encKeyOk, now, settings, bot, notifications, nextId, call, create,
                   sendReq, flush, response, stockVars, probe, test, predict, predictions,
                   sched>>

JobSaveStock ==
    /\ job.pc = "fetch" /\ job.task.pc = "saveStock"
    /\ \E fault \in BOOLEAN :
          IF fault
          THEN /\ job' = afterFetch(reject(job.task, "storage"))
               /\ stocks' = stocks
          ELSE /\ job' = afterFetch(afterWrite(job.task))
               /\ stocks' = [stocks EXCEPT ![job.task.sym] = jobPayload]
    /\ UNCHANGED <<lateVars, encKeyOk, now, settings, bot, notifications, nextId, call, create,
                   sendReq, flush, response, prices, batch, listing, probe, test, predict,
                   predictions, sched>>

JobSavePrice ==
    /\ job.pc = "fetch" /\ job.task.pc = "savePrice"
    /\ \E fault \in BOOLEAN :
          IF fault
          THEN /\ job' = afterFetch(reject(job.task, "storage"))
               /\ prices' = prices
          ELSE /\ job' = afterFetch(afterWrite(job.task))
               /\ prices' = upsert(prices, [symbol |-> job.task.sym, date |-> job.task.w,
                                             data |-> jobPayload])
    /\ UNCHANGED <<lateVars, encKeyOk, now, settings, bot, notifications, nextId, call, create,
                   sendReq, flush, response, stocks, batch, listing, probe, test, predict,
                   predictions, sched>>

\* the timer fires: the next symbol of the list, or the end of the run
JobDelay ==
    /\ job.pc = "delay"
    /\ job' = IF job.i < Len(job.list)
              THEN [job EXCEPT !.pc = "fetch", !.i = @ + 1, !.delays = @ + 1,
                               !.task = newTask(job.list[job.i + 1]),
                               !.calls = Append(@, job.list[job.i + 1])]
              ELSE [returned(job) EXCEPT !.delays = @ + 1]
    /\ UNCHANGED <<lateVars, encKeyOk, now, settings, bot, notifications, nextId, call, create,
                   sendReq, flush, response, stockVars, probe, test, predict, predictions,
                   sched>>

-----------------------------------------------------------------------------
(* scheduler.initScheduledJobs: three cron.schedule callbacks.  node-cron  *)
(* calls the callback at every match of the expression; the callback is an *)
(* async function that awaits the job.  fired counts the callbacks called, *)
(* running the callbacks whose job has not returned.                       *)

MaxTriggers == 3        \* times each cron expression matches

Jobs == {"updateStockData", "sendDailyNotifications", "backupDatabase"}

noSched == [j \in Jobs |-> [fired |-> 0, running |-> 0]]

\* a trigger that is dropped while a run of the same job is in progress
afterTrigger_NoOverlap(s) ==
    IF s.running > 0 THEN [s EXCEPT !.fired = @ + 1]
    ELSE [fired |-> s.fired + 1, running |-> 1]

\* the cron expression matches: the callback is called
afterTrigger(s) == [fired |-> s.fired + 1, running |-> s.running + 1]

Trigger(j) ==
    /\ sched[j].fired < MaxTriggers
    /\ sched' = [sched EXCEPT ![j] = afterTrigger(sched[j])]
    /\ UNCHANGED <<lateVars, encKeyOk, now, settings, bot, notifications, nextId, call, create,
                   sendReq, flush, response, stockVars, probe, test, predict, predictions,
                   job>>

\* a run of the job returns (each job catches its own errors)
Finish(j) ==
    /\ sched[j].running > 0
    /\ sched' = [sched EXCEPT ![j].running = @ - 1]
    /\ UNCHANGED <<lateVars, encKeyOk, now, settings, bot, notifications, nextId, call, create,
                   sendReq, flush, response, stockVars, probe, test, predict, predictions,
                   job>>

-----------------------------------------------------------------------------
(* The state after the server has started: initDatabase has created the    *)
(* tables and inserted the default settings.                               *)

Init ==
    /\ encKeyOk \in BOOLEAN
    /\ now = 0
    /\ settings = defaultSettings
    /\ bot = null
    /\ notifications = <<>>
    /\ nextId = 1
    /\ call = [s \in Slots |-> noCall]
    /\ create = noCreate
    /\ sendReq = noSend
    /\ flush = noFlush
    /\ response = noResponse
    /\ stocks = noStocks
    /\ prices = noPrices
    /\ batch = noBatch
    /\ listing = noListing
    /\ probe = noProbe
    /\ test = noTest
    /\ predict = noPredict
    /\ predictions = <<>>
    /\ job = noJob
    /\ sched = noSched
    /\ found = noFound
    /\ backup = noBackups
    /\ init = noInit

\* the requests of the notification controller, with the settings they read
Next ==
    \/ \E hasMessage \in BOOLEAN, send_now \in BOOLEAN :
          CreateNotification(hasMessage, send_now)
    \/ CreateMarkSent
    \/ CreateMarkUnsent
    \/ \E id \in 1 .. MaxNotifications : SendNotification(id)
    \/ SendSelect
    \/ SendMark
    \/ SendFail
    \/ \E id \in 1 .. MaxNotifications : DeleteNotification(id)
    \/ \E s \in {"create", "send"} : CallToken(s)
    \/ \E s \in {"create", "send"} : CallChatId(s)
    \/ \E s \in {"create", "send"} : CallNet(s)
    \/ \E key \in {"telegram_token", "telegram_chat_id"} :
          \E value \in TelegramValues(key) : UpdateSettings(key, value)

Spec == Init /\ [][Next]_vars

-----------------------------------------------------------------------------
(* A scheduled flush.  Its initial states are the states the requests above *)
(* can leave behind: any rows, pending or sent, any stored Telegram         *)
(* settings, and a bot client cached or not.  While the run is studied the  *)
(* chat id and telegram_enabled stay as stored; the token may change.       *)

\* what updateSettings can have stored under a key
StoredValues(key) == {valueToStore(key, v) : v \in TelegramValues(key)} \ {threw}

SettingsOver(K) ==
    {[k \in DOMAIN defaultSettings \cup K |->
         IF k \in K THEN [value |-> f[k], updated_at |-> 0] ELSE defaultSettings[k]] :
     f \in {g \in [K -> UNION {StoredValues(k) : k \in K}] :
               \A k \in K : g[k] \in StoredValues(k)}}

TelegramStores == UNION {SettingsOver(K) : K \in SUBSET TelegramKeys}

NotificationTables == UNION {[D -> {pendingRow, sentRow}] : D \in SUBSET Ids}

InitFlush ==
    /\ encKeyOk \in BOOLEAN
    /\ now = 0
    /\ settings \in TelegramStores
    /\ bot \in {null} \cup (IF encKeyOk THEN Tokens ELSE {})
    /\ notifications \in NotificationTables
    /\ nextId = MaxPending + 1
    /\ call = [s \in Slots |-> noCall]
    /\ create = noCreate
    /\ sendReq = noSend
    /\ flush = noFlush
    /\ response = noResponse
    /\ stocks = noStocks
    /\ prices = noPrices
    /\ batch = noBatch
    /\ listing = noListing
    /\ probe = noProbe
    /\ test = noTest
    /\ predict = noPredict
    /\ predictions = <<>>
    /\ job = noJob
    /\ sched = noSched
    /\ found = noFound
    /\ backup = noBackups
    /\ init = noInit

NextFlush ==
    \/ FlushStart
    \/ FlushEnabled
    \/ FlushSelect
    \/ FlushMark
    \/ FlushCatch
    \/ FlushDelay
    \/ \E id \in Ids : SendNotification(id)
    \/ SendSelect
    \/ SendMark
    \/ SendFail
    \/ \E id \in Ids : DeleteNotification(id)
    \/ \E s \in {"flush", "send"} : CallToken(s)
    \/ \E s \in {"flush", "send"} : CallChatId(s)
    \/ \E s \in {"flush", "send"} : CallNet(s)
    \/ \E value \in TelegramValues("telegram_token") :
          UpdateSettings("telegram_token", value)

SpecFlush == InitFlush /\ [][NextFlush]_vars

-----------------------------------------------------------------------------
(* Refresh requests.  The initial states are those the settings requests   *)
(* can leave behind for the two settings fetchStockData reads.             *)

StockStoredValues(key) == {valueToStore(key, v) : v \in StockValues(key)} \ {threw}

StockStores ==
    {[k \in DOMAIN defaultSettings \cup K |->
        [value |-> IF k \in StockKeys THEN f[k] ELSE defaultSettings[k].value,
         updated_at |-> 0]] :
       K \in {{}, {"stock_api_key"}},
       f \in {g \in [StockKeys -> UNION {StockStoredValues(k) : k \in StockKeys}] :
                 \A k \in StockKeys : g[k] \in StockStoredValues(k)}}

InitRefresh ==
    /\ encKeyOk \in BOOLEAN
    /\ now = 0
    /\ settings \in StockStores
    /\ bot = null
    /\ notifications = <<>>
    /\ nextId = 1
    /\ call = [s \in Slots |-> noCall]
    /\ create = noCreate
    /\ sendReq = noSend
    /\ flush = noFlush
    /\ response = noResponse
    /\ stocks = noStocks
    /\ prices = noPrices
    /\ batch = noBatch
    /\ listing = noListing
    /\ probe = noProbe
    /\ test = noTest
    /\ predict = noPredict
    /\ predictions = <<>>
    /\ job = noJob
    /\ sched = noSched
    /\ found = noFound
    /\ backup = noBackups
    /\ init = noInit

TaskStep ==
    \E i \in 1 .. MaxBatch :
       \/ TaskProvider(i)
       \/ TaskKey(i)
       \/ TaskOverview(i)
       \/ TaskSeries(i)
       \/ TaskSaveStock(i)
       \/ TaskSavePrice(i)

NextRefresh ==
    \/ \E symbols \in RefreshBodies : RefreshStockData(symbols)
    \/ TaskStep
    \/ \E value \in StockValues("stock_api_key") : UpdateSettings("stock_api_key", value)

SpecRefresh == InitRefresh /\ [][NextRefresh]_vars

\* every awaited statement or request completes
SpecRefreshFair == SpecRefresh /\ WF_vars(TaskStep)

-----------------------------------------------------------------------------
(* The map of getAllSettings as a function of the stored rows.  The rows    *)
(* are those updateSettings can store: a sensitive key holds a ciphertext,  *)
(* '' or NULL, written at any time.                                        *)

Ciphertexts == IF encKeyOk THEN {Cipher(p) : p \in Plaintexts} ELSE {}

ListedKeys == SensitiveKeys \cup {"telegram_chat_id"}

ListedValues(key) ==
    IF key \in SensitiveKeys THEN Ciphertexts \cup {"", null} ELSE {"42", ""}

ListingStores ==
    UNION {{[k \in DOMAIN defaultSettings \cup K |->
               IF k \in K THEN f[k] ELSE defaultSettings[k]] :
            f \in {g \in [K -> [value : UNION {ListedValues(k) : k \in K},
                                updated_at : 0 .. MaxClock]] :
                      \A k \in K : g[k].value \in ListedValues(k)}} :
           K \in SUBSET ListedKeys}

InitListing ==
    /\ encKeyOk \in BOOLEAN
    /\ now = MaxClock
    /\ settings \in ListingStores
    /\ bot = null
    /\ notifications = <<>>
    /\ nextId = 1
    /\ call = [s \in Slots |-> noCall]
    /\ create = noCreate
    /\ sendReq = noSend
    /\ flush = noFlush
    /\ response = noResponse
    /\ stocks = noStocks
    /\ prices = noPrices
    /\ batch = noBatch
    /\ listing = noListing
    /\ probe = noProbe
    /\ test = noTest
    /\ predict = noPredict
    /\ predictions = <<>>
    /\ job = noJob
    /\ sched = noSched
    /\ found = noFound
    /\ backup = noBackups
    /\ init = noInit

NextListing == MapSettings

SpecListing == InitListing /\ [][NextListing]_vars

(* The server as deployed: settings requests and GET /settings.            *)

NextServer ==
    \/ GetAllSettings
    \/ Tick
    \/ \E key \in TelegramKeys :
          \E value \in TelegramValues(key) : UpdateSettings(key, value)
    \/ \E key \in StockKeys :
          \E value \in StockValues(key) : UpdateSettings(key, value)

SpecServer == Init /\ [][NextServer]_vars

(* encrypt and decrypt as functions, under a usable or an unusable key.    *)

NextCrypto ==
    \/ \E text \in Encryptable : CallEncrypt(text)
    \/ \E encryptedText \in DecryptInputs : CallDecrypt(encryptedText)
    \/ CallDecrypt(probe.enc.out)

SpecCrypto == Init /\ [][NextCrypto]_vars

(* The settings requests alone: any key may be given any secret, '' or null. *)

SecretInputs == Plaintexts \cup {"", null}

NextSettings ==
    \/ Tick
    \/ \E key \in SensitiveKeys :
          \E value \in SecretInputs : UpdateSettings(key, value)
    \/ \E value \in TelegramValues("telegram_chat_id") :
          UpdateSettings("telegram_chat_id", value)

SpecSettings == Init /\ [][NextSettings]_vars

(* The operations that consume a secret, in a process started on a         *)
(* database an earlier process has written: a sensitive key is absent, or   *)
(* holds a ciphertext of this process's key, or a hex string that key does  *)
(* not decrypt (written under another key).  The key of the process may    *)
(* also be unusable.  One notification is pending; the chat id is set.     *)

SecretValues(key) ==
    CASE key = "telegram_token" -> {Cipher(p) : p \in Tokens} \cup {Truncated(Cipher(p)) : p \in Tokens}
      [] OTHER -> {Cipher(p) : p \in ApiKeys} \cup {Truncated(Cipher(p)) : p \in ApiKeys}

SecretStores ==
    UNION {{[k \in DOMAIN defaultSettings \cup K \cup {"telegram_chat_id"} |->
               [value |-> IF k \in K THEN f[k]
                          ELSE IF k = "telegram_chat_id" THEN "42"
                          ELSE IF k = "stock_api_provider" THEN provider
                          ELSE defaultSettings[k].value,
                updated_at |-> 0]] :
            f \in {g \in [K -> UNION {SecretValues(k) : k \in K}] :
                      \A k \in K : g[k] \in SecretValues(k)},
            provider \in {"alphavantage", "iex"}} :
           K \in SUBSET SensitiveKeys}

PriceTables ==
    {noPrices, {[symbol |-> "AAPL", date |-> d, data |-> <<"rest", 0, 1>>] : d \in Dates}}

InitSecrets ==
    /\ encKeyOk \in BOOLEAN
    /\ now = 0
    /\ settings \in SecretStores
    /\ bot = null
    /\ notifications = [id \in {1} |-> pendingRow]
    /\ nextId = 2
    /\ call = [s \in Slots |-> noCall]
    /\ create = noCreate
    /\ sendReq = noSend
    /\ flush = noFlush
    /\ response = noResponse
    /\ stocks = noStocks
    /\ prices \in PriceTables
    /\ batch = noBatch
    /\ listing = noListing
    /\ probe = noProbe
    /\ test = noTest
    /\ predict = noPredict
    /\ predictions = <<>>
    /\ job = noJob
    /\ sched = noSched
    /\ found = noFound
    /\ backup = noBackups
    /\ init = noInit

\* the bound on concurrency: a connection test or a delivery runs alone; a
\* prediction and a refresh may overlap
Testing == test.pc \notin {"idle", "done"}
Predicting == predict.pc \notin {"idle", "done"}
Refreshing == \E i \in DOMAIN batch.tasks : ~Settled(batch.tasks[i])
Alone == ~Testing /\ ~Running(sendReq) /\ ~Predicting /\ ~Refreshing

NextSecrets ==
    \/ \E service \in Services : Alone /\ TestConnection(service)
    \/ TestProvider
    \/ TestKey
    \/ TestToken
    \/ TestAiKey
    \/ TestNet
    \/ \E symbol \in Symbols \cup {null}, timeframe \in {"short", "weekly"} :
          ~Testing /\ ~Running(sendReq) /\ GeneratePrediction(symbol, timeframe)
    \/ PredictKey
    \/ PredictLatest
    \/ PredictInsert
    \/ ~Testing /\ ~Running(sendReq) /\ RefreshStockData(<<"AAPL">>)
    \/ TaskProvider(1)
    \/ TaskKey(1)
    \/ TaskOverview(1)
    \/ TaskSeries(1)
    \/ TaskSaveStock(1)
    \/ TaskSavePrice(1)
    \/ Alone /\ SendNotification(1)
    \/ SendSelect
    \/ SendMark
    \/ SendFail
    \/ CallToken("send")
    \/ CallChatId("send")
    \/ CallNet("send")

SpecSecrets == InitSecrets /\ [][NextSecrets]_vars

(* The scheduled refresh, with one refresh request that may overlap it.    *)
(* The stocks table holds any of the symbols, written by earlier requests; *)
(* the API key is stored and decrypts, or is not stored.                   *)

StockTables == [Symbols -> {noData, <<"rest", 0, 1>>}]

ScheduleStores ==
    {defaultSettings,
     [k \in DOMAIN defaultSettings \cup {"stock_api_key"} |->
         IF k = "stock_api_key" THEN [value |-> Cipher("keyA"), updated_at |-> 0]
         ELSE defaultSettings[k]]}

OverlapBodies == {<<"AAPL">>, <<"BAD">>, <<"AAPL", "AAPL">>}

InitSchedule ==
    /\ encKeyOk = TRUE
    /\ now = 0
    /\ settings \in ScheduleStores
    /\ bot = null
    /\ notifications = <<>>
    /\ nextId = 1
    /\ call = [s \in Slots |-> noCall]
    /\ create = noCreate
    /\ sendReq = noSend
    /\ flush = noFlush
    /\ response = noResponse
    /\ stocks \in StockTables
    /\ prices = noPrices
    /\ batch = noBatch
    /\ listing = noListing
    /\ probe = noProbe
    /\ test = noTest
    /\ predict = noPredict
    /\ predictions = <<>>
    /\ job = noJob
    /\ sched = noSched
    /\ found = noFound
    /\ backup = noBackups
    /\ init = noInit

JobStep ==
    \/ JobSelect
    \/ JobProvider
    \/ JobKey
    \/ JobOverview
    \/ JobSeries
    \/ JobSaveStock
    \/ JobSavePrice
    \/ JobDelay

NextSchedule ==
    \/ UpdateStockData
    \/ JobStep
    \/ \E symbols \in OverlapBodies : batch.no = 0 /\ RefreshStockData(symbols)
    \/ TaskStep

SpecSchedule == InitSchedule /\ [][NextSchedule]_vars

(* The cron triggers alone.                                                *)

NextCron ==
    \/ \E j \in Jobs : Trigger(j)
    \/ \E j \in Jobs : Finish(j)

SpecCron == Init /\ [][NextCron]_vars

(* One scheduled flush and one scheduled refresh, Telegram configured, three *)
(* notifications pending and both symbols tracked.                         *)

InitPacing ==
    /\ encKeyOk = TRUE
    /\ now = 0
    /\ settings \in
          {[k \in DOMAIN store \cup TelegramKeys |->
               IF k \in TelegramKeys
               THEN [value |-> CASE k = "telegram_token" -> Cipher("tokA")
                                 [] k = "telegram_chat_id" -> "42"
                                 [] OTHER -> "true",
                     updated_at |-> 0]
               ELSE store[k]] : store \in ScheduleStores}
    /\ bot = null
    /\ notifications = [id \in Ids |-> pendingRow]
    /\ nextId = MaxPending + 1
    /\ call = [s \in Slots |-> noCall]
    /\ create = noCreate
    /\ sendReq = noSend
    /\ flush = noFlush
    /\ response = noResponse
    /\ stocks = [s \in Symbols |-> <<"rest", 0, 1>>]
    /\ prices = noPrices
    /\ batch = noBatch
    /\ listing = noListing
    /\ probe = noProbe
    /\ test = noTest
    /\ predict = noPredict
    /\ predictions = <<>>
    /\ job = noJob
    /\ sched = noSched
    /\ found = noFound
    /\ backup = noBackups
    /\ init = noInit

NextPacing ==
    \/ FlushStart
    \/ FlushEnabled
    \/ FlushSelect
    \/ FlushMark
    \/ FlushCatch
    \/ FlushDelay
    \/ CallToken("flush")
    \/ CallChatId("flush")
    \/ CallNet("flush")
    \/ UpdateStockData
    \/ JobStep

SpecPacing == InitPacing /\ [][NextPacing]_vars

-----------------------------------------------------------------------------
(* Predictions generated and listed: an AI key is stored, AAPL has price   *)
(* rows or none, and the clock advances.                                   *)

InitPredictions ==
    /\ encKeyOk = TRUE
    /\ now = 0
    /\ settings \in {[k \in DOMAIN defaultSettings \cup {"ai_api_key"} |->
                        IF k = "ai_api_key" THEN [value |-> Cipher(key), updated_at |-> 0]
                        ELSE defaultSettings[k]] : key \in ApiKeys}
    /\ bot = null
    /\ notifications = <<>>
    /\ nextId = 1
    /\ call = [s \in Slots |-> noCall]
    /\ create = noCreate
    /\ sendReq = noSend
    /\ flush = noFlush
    /\ response = noResponse
    /\ stocks = noStocks
    /\ prices \in PriceTables
    /\ batch = noBatch
    /\ listing = noListing
    /\ probe = noProbe
    /\ test = noTest
    /\ predict = noPredict
    /\ predictions = <<>>
    /\ job = noJob
    /\ sched = noSched
    /\ found = noFound
    /\ backup = noBackups
    /\ init = noInit

NextPredictions ==
    \/ \E symbol \in Symbols \cup {null}, timeframe \in Timeframes \cup {"weekly", null} :
          GeneratePrediction(symbol, timeframe)
    \/ PredictKey
    \/ PredictLatest
    \/ PredictInsert
    \/ \E symbol \in Symbols, timeframe \in Timeframes \cup {null} :
          GetPredictions(symbol, timeframe)
    \/ Tick

SpecPredictions == InitPredictions /\ [][NextPredictions]_vars

-----------------------------------------------------------------------------
(* Backups: the weekly job and the request, overlapping, every outcome of  *)
(* the copy and of the write of the setting, the clock advancing.          *)

NextBackup ==
    \/ \E c \in Callers : CreateBackup(c)
    \/ \E c \in Callers : BackupCopy(c)
    \/ \E c \in Callers : BackupRecord(c)
    \/ Tick

SpecBackup == Init /\ [][NextBackup]_vars

\* every stream event and every awaited statement that can happen does
SpecBackupFair ==
    SpecBackup /\ \A c \in Callers : WF_vars(BackupCopy(c) \/ BackupRecord(c))

-----------------------------------------------------------------------------
(* The process starts on a new database file, or on one that holds rows,   *)
(* and initDatabase is run again by requests, with settings being updated  *)
(* meanwhile once the settings table exists.                               *)

InitInitialize ==
    /\ encKeyOk = TRUE
    /\ now = 0
    /\ bot = null
    /\ call = [s \in Slots |-> noCall]
    /\ create = noCreate
    /\ sendReq = noSend
    /\ flush = noFlush
    /\ response = noResponse
    /\ batch = noBatch
    /\ listing = noListing
    /\ probe = noProbe
    /\ test = noTest
    /\ predict = noPredict
    /\ job = noJob
    /\ sched = noSched
    /\ found = noFound
    /\ backup = noBackups
    /\ init = startupInit
    /\ \E used \in BOOLEAN :
          IF used
          THEN /\ settings \in {defaultSettings,
                                [defaultSettings EXCEPT
                                    !["stock_api_provider"].value = "twelvedata"]}
               /\ notifications = [id \in {1} |-> sentRow]
               /\ nextId = 2
               /\ stocks = [noStocks EXCEPT !["AAPL"] = <<"rest", 0, 1>>]
               /\ prices \in PriceTables \ {noPrices}
               /\ predictions = <<insertedPrediction("AAPL", "short", 0,
                                                     latestPrice("AAPL"))>>
          ELSE /\ settings = [k \in {} |-> [value |-> "", updated_at |-> 0]]
               /\ notifications = <<>>
               /\ nextId = 1
               /\ stocks = noStocks
               /\ prices = noPrices
               /\ predictions = <<>>

NextInitialize ==
    \/ \E reset \in BOOLEAN : InitializeDatabase(reset)
    \/ InitSchema
    \/ InitDefault
    \/ \E value \in StockValues("stock_api_provider") :
          init.pc /= "schema" /\ ~Exited /\ UpdateSettings("stock_api_provider", value)
    \/ Tick

SpecInitialize == InitInitialize /\ [][NextInitialize]_vars

-----------------------------------------------------------------------------
(* Claims about the notification dispatcher.                               *)

\* C1: createNotification with send_now whose delivery attempt has failed: the
\* row is not stored with is_sent = true between the INSERT and the response.
C1_FailedSendRowNeverSent ==
    (create.pc = "send" /\ call["create"].st = "err"
        /\ create.id \in DOMAIN notifications)
    => ~notifications[create.id].is_sent

\* C2: when a flush has made its last attempt, every notification of its list
\* whose delivery succeeded is marked sent, and every one whose delivery failed
\* (and that no other request sent meanwhile) is still is_sent = false; each
\* notification of the list was attempted.
C2_FlushMarksExactlyDelivered ==
    FlushFinished =>
        /\ flush.okIds \cup flush.failIds = FlushIds
        /\ flush.okIds \cap flush.failIds = {}
        /\ \A id \in FlushIds \cap DOMAIN notifications :
              /\ id \in flush.okIds => notifications[id].is_sent
              /\ id \in flush.failIds \ flush.others => ~notifications[id].is_sent

\* C2, its case: three pending, the second fails, 1 and 3 are sent, 2 is pending
C2_Witness ==
    /\ FlushFinished
    /\ flush.list = <<1, 2, 3>>
    /\ flush.okIds = {1, 3}
    /\ flush.failIds = {2}
    /\ DOMAIN notifications = {1, 2, 3}
    /\ notifications[1].is_sent /\ ~notifications[2].is_sent /\ notifications[3].is_sent

\* C7: a sendMessage call made, and run, while the stored telegram_token or the
\* stored telegram_chat_id is missing issues no request to the bot API.
C7_NotConfiguredNoNetwork ==
    \A s \in Slots : (call[s].tokMiss \/ call[s].chatMiss) => ~call[s].net

\* C8: createNotification with send_now while no bot token is stored answers 200
\* with is_sent = false and the warning, and leaves the row is_sent = false.
C8_CreatedWithWarning ==
    (response.by = "create" /\ response.noTok) =>
        /\ response.code = 200
        /\ ~response.is_sent
        /\ response.warning
        /\ response.row /= "sent"

-----------------------------------------------------------------------------
(* Claims about the refresh of stock data.                                 *)

Task(i) == batch.tasks[i]

\* no other fetchStockData call of the request is for the symbol of task i
OnlyTaskOfSymbol(i) ==
    \A j \in DOMAIN batch.tasks : j /= i => Task(j).sym /= Task(i).sym

\* the payload is one the provider returned to the current request
FromRequest(data) == data[1] = "rest" /\ data[2] = batch.no

\* the tables hold nothing of the current request for the symbol
NothingWrittenFor(symbol) ==
    /\ ~FromRequest(stocks[symbol])
    /\ \A r \in prices : r.symbol = symbol => ~FromRequest(r.data)

\* C3: the response to a refresh of a non-empty symbol list carries one outcome
\* per symbol, whether symbols failed or not; it is never a single error.
C3_PerSymbolOutcomes ==
    (batch.pc = "run" /\ batch.response.code /= 0)
    => /\ batch.response.code = 200
       /\ Len(batch.response.results) = Len(batch.tasks)

\* C4: a fetchStockData call whose provider fetch has succeeded is never stopped
\* by the failure of another call of the request: it is writing, has written
\* its Stock row and all its PricePoint rows, or met a storage error of its
\* own, and under fair scheduling it eventually reaches one of the last two.
C4_OthersStillPersisted ==
    /\ [](\A i \in DOMAIN batch.tasks :
            /\ Task(i).got = "all" =>
                  \/ Task(i).pc \in {"saveStock", "savePrice", "fulfilled"}
                  \/ Task(i).pc = "rejected" /\ Task(i).err = "storage"
            /\ Task(i).pc = "fulfilled" =>
                  /\ FromRequest(stocks[Task(i).sym])
                  /\ \A d \in 1 .. Task(i).n :
                        \E r \in PriceRows(Task(i).sym, d) : FromRequest(r.data))
    /\ \A i \in 1 .. MaxBatch :
          (i \in DOMAIN batch.tasks /\ Task(i).got = "all")
          ~> (i \in DOMAIN batch.tasks
                /\ (Task(i).pc = "fulfilled" \/ Task(i).err = "storage"))

\* C4, its case: BAD was rejected by the provider and the request answered 500
\* while AAPL was still running; AAPL's rows are all written
C4_Witness ==
    /\ Len(batch.tasks) = 2
    /\ Task(1).sym = "AAPL" /\ Task(2).sym = "BAD"
    /\ Task(2).pc = "rejected" /\ Task(2).err = "overview"
    /\ batch.response.code = 500 /\ batch.response.unsettled = 1
    /\ Task(1).pc = "fulfilled" /\ Task(1).n = MaxDates
    /\ stocks["AAPL"] = payload(1)
    /\ \A d \in Dates :
          PriceRows("AAPL", d) = {[symbol |-> "AAPL", date |-> d, data |-> payload(1)]}

\* C5: a fetchStockData call that has the stock info but not the price series
\* has written no row, and when the series fetch fails the call ends with that
\* error and the tables hold nothing of the request for its symbol.
C5_SeriesFailureWritesNothing ==
    \A i \in DOMAIN batch.tasks :
       /\ Task(i).got = "info" => Task(i).w = 0
       /\ (Task(i).pc = "rejected" /\ Task(i).err = "series") =>
             /\ Task(i).got = "info"
             /\ Task(i).w = 0
             /\ OnlyTaskOfSymbol(i) => NothingWrittenFor(Task(i).sym)

\* C5, its case: the second refresh of AAPL fails at the series; the rows of the
\* first refresh are as they were
C5_Witness ==
    /\ batch.no = 2
    /\ Len(batch.tasks) = 1
    /\ Task(1).sym = "AAPL" /\ Task(1).pc = "rejected" /\ Task(1).err = "series"
    /\ stocks["AAPL"] = <<"rest", 1, 1>>
    /\ \A d \in Dates :
          PriceRows("AAPL", d) = {[symbol |-> "AAPL", date |-> d, data |-> <<"rest", 1, 1>>]}

\* C6: after a storage write has failed in saveStockData, the tables hold nothing
\* of the request for the symbol (no partial commit remains).
C6_NoPartialCommit ==
    \A i \in DOMAIN batch.tasks :
       (Task(i).pc = "rejected" /\ Task(i).err = "storage" /\ OnlyTaskOfSymbol(i))
       => NothingWrittenFor(Task(i).sym)

-----------------------------------------------------------------------------
(* Claims about the settings listing.                                      *)

\* the sensitive keys under which the store holds a non-empty value
SecretKeys(store) == {k \in DOMAIN store \cap SensitiveKeys : ~Falsy(store[k].value)}

\* stores that differ from the given one only in non-empty values of sensitive keys
SameButSecrets(store) ==
    {[k \in DOMAIN store |->
        IF k \in SecretKeys(store) THEN [store[k] EXCEPT !.value = f[k]] ELSE store[k]] :
     f \in [SecretKeys(store) -> Ciphertexts]}

\* C9: in the listing made from the stored rows, the entry of a sensitive key has
\* the fields key, isSet and updated_at only, isSet telling whether a value is
\* stored, and every store that differs only in non-empty values of sensitive
\* keys gives the same listing.
C9_ListingRedacted ==
    listing.status = 200 =>
        /\ DOMAIN listing.data = DOMAIN settings
        /\ \A k \in DOMAIN listing.data \cap SensitiveKeys :
              /\ DOMAIN listing.data[k] = {"key", "isSet", "updated_at"}
              /\ listing.data[k].key = k
              /\ listing.data[k].isSet = ~Falsy(settings[k].value)
              /\ listing.data[k].updated_at = settings[k].updated_at
        /\ \A other \in SameButSecrets(settings) :
              processedSettings(other) = listing.data

\* C9, its case: a token is stored, an empty API key too, and both are listed
C9_Witness ==
    /\ listing.status = 200
    /\ DOMAIN settings \cap SensitiveKeys = {"telegram_token", "stock_api_key"}
    /\ settings["telegram_token"].value = Cipher("tokA")
    /\ settings["stock_api_key"].value = ""
    /\ listing.data["telegram_token"] =
          [key |-> "telegram_token", isSet |-> TRUE,
           updated_at |-> settings["telegram_token"].updated_at]
    /\ listing.data["stock_api_key"].isSet = FALSE
    /\ Cardinality(SameButSecrets(settings)) > 1

\* C10: once the server runs, GET /settings answers 200 with one entry per
\* stored setting key.
C10_ListingServed ==
    listing.status /= 0 =>
        /\ listing.status = 200
        /\ DOMAIN listing.data = DOMAIN settings

-----------------------------------------------------------------------------
(* Claims about the secrets at rest.                                       *)

\* the value column of a key in a state of the settings table (null: no row)
ValueIn(store, key) == IF key \in DOMAIN store THEN store[key].value ELSE null

\* C11: the settings table holds, for each sensitive key, nothing, '' / NULL, or
\* a ciphertext, never a plaintext; a step of updateSettings that is given a
\* non-empty plaintext v for the key leaves encrypt(v) stored, one given an empty
\* value leaves it stored, and nothing else writes the value of a sensitive key.
C11_SensitiveStoredEncrypted ==
    /\ [](\A k \in SensitiveKeys :
            /\ ValueIn(settings, k) \notin Plaintexts
            /\ \/ Falsy(ValueIn(settings, k))
               \/ \E v \in Plaintexts : ValueIn(settings, k) = Cipher(v))
    /\ [][\A k \in SensitiveKeys : \A v \in SecretInputs :
            UpdateSettings(k, v) =>
               ValueIn(settings', k) = IF Falsy(v) THEN v ELSE Cipher(v)]_vars
    /\ [][(\E k \in SensitiveKeys : ValueIn(settings', k) /= ValueIn(settings, k))
            => \E k \in SensitiveKeys : \E v \in SecretInputs : UpdateSettings(k, v)]_vars

\* C11, its case: a key was given one secret and then, later, another one; a
\* second key was given a secret and then cleared
C11_Witness ==
    /\ now = MaxClock
    /\ "telegram_token" \in DOMAIN settings /\ "ai_api_key" \in DOMAIN settings
    /\ settings["telegram_token"] = [value |-> Cipher("keyA"), updated_at |-> MaxClock]
    /\ settings["ai_api_key"] = [value |-> "", updated_at |-> MaxClock]

\* C12: encrypt returns a ciphertext that decrypt turns back into the plaintext,
\* and decrypt returns null, without throwing, on every input that is not a
\* ciphertext.
C12_RoundTripAndNull ==
    /\ probe.enc.called =>
          /\ probe.enc.out /= threw
          /\ (probe.dec.called /\ probe.dec.arg = probe.enc.out)
                => probe.dec.out = probe.enc.arg
    /\ (probe.dec.called /\ probe.dec.arg \notin Ciphers) => probe.dec.out = null

-----------------------------------------------------------------------------
(* Claims about the price table.                                           *)

\* C14: historical_prices never holds two rows for one (symbol, date), and when
\* a refresh of a symbol has written its series, each of its dates has exactly
\* one row, holding what that refresh wrote.
C14_OneRowPerSymbolDate ==
    /\ \A symbol \in Symbols : \A d \in Dates : Cardinality(PriceRows(symbol, d)) <= 1
    /\ \A i \in DOMAIN batch.tasks :
          (Task(i).pc = "fulfilled" /\ OnlyTaskOfSymbol(i)) =>
             \A d \in 1 .. Task(i).n :
                PriceRows(Task(i).sym, d) =
                   {[symbol |-> Task(i).sym, date |-> d, data |-> payload(i)]}

\* C14, its case: AAPL refreshed over dates 1..2, then over date 1 only: one row
\* for each date, date 1 from the second refresh, date 2 from the first
C14_Witness ==
    /\ batch.no = 2
    /\ Len(batch.tasks) = 1
    /\ Task(1).sym = "AAPL" /\ Task(1).pc = "fulfilled" /\ Task(1).n = 1
    /\ PriceRows("AAPL", 1) = {[symbol |-> "AAPL", date |-> 1, data |-> <<"rest", 2, 1>>]}
    /\ PriceRows("AAPL", 2) = {[symbol |-> "AAPL", date |-> 2, data |-> <<"rest", 1, 1>>]}

-----------------------------------------------------------------------------
(* Claims about the consumers of the secrets.                              *)

\* the stored value of the key is set and decrypt returns null for it
Undecryptable(key) == ~Falsy(getSetting(key)) /\ Falsy(decrypt(getSetting(key)))

\* C13: while a stored secret does not decrypt, every operation that consumes it
\* ends as it does when the secret is absent (fetchStockData and sendMessage
\* throw before any request, generatePrediction and testConnection answer 400)
\* and no outbound request is made with the undecrypted value.
C13_UndecryptableIsUnset ==
    /\ Undecryptable("stock_api_key") =>
          /\ \A i \in DOMAIN batch.tasks :
                batch.tasks[i].pc \in {"provider", "key", "rejected"}
                   /\ batch.tasks[i].got = "none"
          /\ test.service = "stock_api" =>
                ~test.net /\ (test.pc = "done" => test.code = 400)
    /\ Undecryptable("telegram_token") =>
          /\ ~call["send"].net /\ call["send"].st \in {"none", "token", "err"}
          /\ test.service = "telegram" =>
                ~test.net /\ (test.pc = "done" => test.code = 400)
    /\ Undecryptable("ai_api_key") => predict.code \in {0, 400}

-----------------------------------------------------------------------------
(* Claims about concurrent writers of the price table.                     *)

\* the payloads of the fetchStockData calls in progress or settled that have
\* written the key
WritersOf(symbol, d) ==
    {payload(i) : i \in {k \in DOMAIN batch.tasks :
                            batch.tasks[k].sym = symbol /\ d < batch.tasks[k].w}}
       \cup (IF job.task.sym = symbol /\ d < job.task.w THEN {jobPayload} ELSE {})

OtherKeys(rows, symbol, d) == {r \in rows : ~(r.symbol = symbol /\ r.date = d)}

\* C15: with several fetchStockData calls writing one symbol at once (a symbol
\* twice in a request, a request overlapping the scheduled run), a key any of
\* them has written holds exactly one row, written by one of them (or by a
\* call of the scheduled run that has returned); and every upsert leaves its
\* key holding exactly the row it wrote and every other key as it was, so that
\* each key holds what its last writer wrote.
C15_LastWriterWins ==
    /\ [](\A symbol \in Symbols : \A d \in Dates :
             WritersOf(symbol, d) /= {} =>
                \E r \in prices :
                   /\ PriceRows(symbol, d) = {r}
                   /\ r.data \in WritersOf(symbol, d)
                         \/ /\ r.data[1] = "cron"
                            /\ r.data /= jobPayload \/ job.task.sym /= symbol)
    /\ [][\A i \in 1 .. MaxBatch :
             (TaskSavePrice(i) /\ batch'.tasks[i].pc /= "rejected") =>
                /\ {r \in prices' : r.symbol = batch.tasks[i].sym /\ r.date = batch.tasks[i].w}
                      = {[symbol |-> batch.tasks[i].sym, date |-> batch.tasks[i].w,
                          data |-> payload(i)]}
                /\ OtherKeys(prices', batch.tasks[i].sym, batch.tasks[i].w)
                      = OtherKeys(prices, batch.tasks[i].sym, batch.tasks[i].w)]_vars
    /\ [][(JobSavePrice /\ job'.task.pc /= "rejected") =>
             /\ {r \in prices' : r.symbol = job.task.sym /\ r.date = job.task.w}
                   = {[symbol |-> job.task.sym, date |-> job.task.w, data |-> jobPayload]}
             /\ OtherKeys(prices', job.task.sym, job.task.w)
                   = OtherKeys(prices, job.task.sym, job.task.w)]_vars

\* C15, its case: AAPL twice in one request while the scheduled run fetches AAPL;
\* all three calls have written both dates, date 1 last by the run, date 2
\* last by the second call of the request
C15_Witness ==
    /\ Len(batch.tasks) = 2
    /\ \A i \in {1, 2} : Task(i).sym = "AAPL" /\ Task(i).pc = "fulfilled" /\ Task(i).n = 2
    /\ job.task.sym = "AAPL" /\ job.task.pc = "fulfilled" /\ job.task.n = 2
    /\ PriceRows("AAPL", 1) = {[symbol |-> "AAPL", date |-> 1, data |-> jobPayload]}
    /\ PriceRows("AAPL", 2) = {[symbol |-> "AAPL", date |-> 2, data |-> payload(2)]}

-----------------------------------------------------------------------------
(* Claims about the scheduler.                                             *)

\* C16: no job ever has two runs in progress: a trigger that fires while the
\* previous run of the job is still running starts no second run (runs of
\* distinct jobs may overlap).
C16_RunsSerialized == \A j \in Jobs : sched[j].running <= 1


\* C17: a run of updateStockData whose SELECT has returned the rows of stocks
\* calls fetchStockData for exactly those symbols, each once, in the order of
\* the list and one at a time; a call that throws is caught and the run goes on
\* to the remaining symbols; the run never ends by throwing.
C17_RunFetchesEachTrackedOnce ==
    /\ [](/\ job.calls = SubSeq(job.list, 1, job.i)
          /\ \A k, l \in DOMAIN job.list : job.list[k] = job.list[l] => k = l
          /\ (job.pc = "done" /\ job.list /= <<>>) => job.calls = job.list
          /\ job.pc = "fetch" <=> job.task.pc \notin {"none", "fulfilled", "rejected"}
          /\ job.end /= "rejected")
    /\ [][(job.pc = "select" /\ job'.pc = "fetch") =>
             {job'.list[k] : k \in DOMAIN job'.list} = tracked]_vars

\* C17, its case: two tracked symbols; the call for the first threw, the call
\* for the second wrote its row, and the run has returned
C17_Witness ==
    /\ job.pc = "done" /\ job.end = "resolved"
    /\ Len(job.list) = 2 /\ job.calls = job.list
    /\ job.failed = {1}
    /\ stocks[job.list[2]] = <<"cron", 1, 2>>


\* the notifications the run has attempted, the one in progress included
Attempted == {flush.list[k] : k \in 1 .. flush.i}

C19_DelayBetweenAttempts ==
    /\ [](job.pc \in {"fetch", "delay"} => job.delays = Len(job.calls) - 1)
    /\ [][/\ (job.pc = "fetch" /\ job'.pc /= "fetch") =>
                job'.pc = "delay" /\ job'.i = job.i
          /\ (job.i >= 1 /\ job'.i > job.i) =>
                job.pc = "delay" /\ job'.delays = job.delays + 1
          /\ (flush.pc = "send" /\ flush'.pc /= "send") =>
                flush'.pc = "delay" /\ flush'.i = flush.i
          /\ (flush.i >= 1 /\ flush'.i > flush.i) =>
                flush.pc = "delay" /\ FlushDelay]_vars

\* C19, its case: in the flush the first delivery failed, the delay has elapsed
\* and the second is in progress; in the refresh the first call threw, the delay
\* has elapsed and the second call is in progress
C19_Witness ==
    /\ flush.pc = "send" /\ flush.i = 2 /\ flush.failIds = {flush.list[1]}
    /\ job.pc = "fetch" /\ job.i = 2 /\ job.failed = {1} /\ job.delays = 1

-----------------------------------------------------------------------------
(* Claims about predictions.                                               *)

\* C20: a generatePrediction request, with a symbol and a valid timeframe, for
\* a symbol without price rows is answered 404, whatever the settings hold, and
\* appends nothing; every row of predictions was computed from a price row of
\* its symbol.
C20_NoDataNoPrediction ==
    /\ (/\ predict.pc = "done"
        /\ predict.error \notin {"Stock symbol is required", "Valid timeframe is required"}
        /\ \A r \in prices : r.symbol /= predict.symbol)
          => predict.code = 404
    /\ \A k \in DOMAIN predictions :
          /\ predictions[k].from /= noRow
          /\ predictions[k].from.symbol = predictions[k].symbol
          /\ PriceRows(predictions[k].symbol, predictions[k].from.date) /= {}

-----------------------------------------------------------------------------
(* Claims about the rows of notifications.                                 *)

\* C21: a row that is is_sent = true is left as it is by every step, or is
\* deleted: is_sent does not return to false and sent_at is not rewritten.
C21_SentRowImmutable ==
    [][\A id \in DOMAIN notifications :
          notifications[id].is_sent =>
             id \notin DOMAIN notifications' \/ notifications'[id] = notifications[id]]_vars

-----------------------------------------------------------------------------
(* Claims about the configuration of fetchStockData.                       *)

-----------------------------------------------------------------------------
(* Claims about the listing of predictions.                                *)

\* C23: getPredictions(symbol, timeframe = T) returns every row of predictions
\* that generatePrediction(symbol, timeframe = T) has inserted before (the
\* label of the request is the one the row keeps in prediction_type).
C23_GeneratedIsListed ==
    [][\A symbol \in Symbols, T \in Timeframes :
          (GetPredictions(symbol, T) /\ found'.code = 200) =>
             \A k \in DOMAIN predictions :
                (predictions[k].symbol = symbol /\ predictions[k].prediction_type = T)
                   => \E i \in DOMAIN found'.rows : found'.rows[i] = k]_vars

-----------------------------------------------------------------------------
(* Claims about the provider without a key.                                *)

\* C24: while stock_api_provider is 'yahoofinance', no fetchStockData call
\* fails on the API key: a call is not rejected because stock_api_key is not
\* set or does not decrypt.
C24_YahooNeedsNoKey ==
    getSetting("stock_api_provider") = "yahoofinance" =>
       \A i \in DOMAIN batch.tasks : batch.tasks[i].err \notin {"key not set", "decrypt"}

-----------------------------------------------------------------------------
(* Claims about backups.                                                   *)

\* C25: last_backup_time is written only by the step that resolves a backup
\* run whose copy has finished, with the time the copy finished at, taken
\* between the start of the run and the write; a step that fails or stalls a
\* run leaves the settings as they are.
C25_BackupTimeAfterCopy ==
    [][/\ settings' /= settings =>
             \E c \in Callers :
                /\ backup[c].pc = "record" /\ backup'[c].end = "resolved"
                /\ getSetting("last_backup_time")' = isoTime(backup[c].at)
                /\ backup[c].at <= now
                /\ \E t \in 0..backup[c].at : backup[c].path = backupPath(t)
       /\ \A c \in Callers :
             (backup[c].end = "pending" /\ backup'[c].end = "resolved") =>
                getSetting("last_backup_time")' = isoTime(backup[c].at)
       /\ \A c \in Callers :
             (backup'[c] /= backup[c] /\ backup'[c].end /= "resolved") =>
                settings' = settings]_vars

\* C25, its case: a run whose copy took one tick has resolved and the setting
\* holds the time the copy finished at, while the other caller's run, which
\* failed on the write of the copy, has left it alone
C25_Witness ==
    /\ backup["backupDatabase"].end = "resolved"
    /\ backup["backupDatabase"].path = backupPath(0)
    /\ backup["backupDatabase"].at = 1
    /\ getSetting("last_backup_time") = isoTime(1)
    /\ backup["POST /database/backup"].end = "rejected"
    /\ backup["POST /database/backup"].path = backupPath(1)

\* C27: every createBackup call whose promise is pending is eventually
\* settled, resolved or rejected.
C27_BackupSettles ==
    \A c \in Callers :
       (backup[c].end = "pending") ~> (backup[c].end \in {"resolved", "rejected"})

-----------------------------------------------------------------------------
(* Claims about deliveries.                                                *)

\* C26: no notification is delivered both by a sendDailyNotifications run and
\* by a sendNotification request: the ids the run has delivered and the ids of
\* its list that a request has delivered are disjoint.
C26_DeliveredOnce == flush.okIds \cap flush.others = {}

\* C28: whenever a sendMessage call obtains the client it delivers with, at
\* its start from getBot's cache or after reading the token, that client was
\* built from the token stored at that moment.
C28_ClientOfStoredToken ==
    [][\A s \in Slots :
          (call[s].b = null /\ call'[s].b /= null) =>
             call'[s].b = decrypt(getSetting("telegram_token"))]_vars

\* C29: while telegram_enabled is not 'true' (unset included), a
\* sendDailyNotifications run ends at its check: it reads no row, starts no
\* sendMessage call, has no delivery succeeded or failed, and its steps leave
\* the table notifications as it is; a run marks a row only while it is 'true'.
C29_DisabledFlushDoesNothing ==
    /\ [](getSetting("telegram_enabled") /= "true" =>
             /\ flush.pc \in {"idle", "enabled"}
             /\ flush.list = <<>>
             /\ call["flush"] = noCall
             /\ flush.okIds \cup flush.failIds = {})
    /\ [][(getSetting("telegram_enabled") /= "true" /\ (FlushStart \/ FlushEnabled))
             => notifications' = notifications]_vars
    /\ [][FlushMark => getSetting("telegram_enabled") = "true"]_vars

\* C29, its case: telegram_enabled is not stored, a token and a chat id are, a
\* row is pending, and a run has started
C29_Witness ==
    /\ "telegram_enabled" \notin DOMAIN settings
    /\ ~TokenMissing /\ ~ChatMissing /\ encKeyOk
    /\ flush.pc = "enabled"
    /\ \E id \in DOMAIN notifications : ~notifications[id].is_sent

-----------------------------------------------------------------------------
(* Claims about the initialization of the database.                        *)

====
